---- MODULE Spec2Model ----
(***************************************************************************)
(* Engagement and notification subsystem of microdos-api                   *)
(* (src/src/modules/community/notifications.ts).                           *)
(*                                                                         *)
(* Every `await prisma.<model>.<op>(...)` of a request handler is one      *)
(* atomic step on the shared tables; a handler is a sequence of such steps *)
(* and handlers of different requests interleave between them.             *)
(***************************************************************************)
EXTENDS Integers, Sequences, FiniteSets, TLC

(* ------------------------------ bounds --------------------------------- *)

\* Requests ever started in one behaviour.
MaxRequests == 3

(* ------------------------------ inputs --------------------------------- *)

Users == {"u1", "u2"}

\* The handlers that run at the same time: the concurrency between requests
\* is that of two of them.
Slots == {1, 2}

\* `null` of a looked-up row id (findUnique found nothing), and the value of
\* an id that references no row.
NoId == 0

TargetTypes == {"post", "comment"}

VARIABLES
    posts,          \* Post table: id -> [authorId, groupId, reactionCount, commentCount]
    comments,       \* Comment table: id -> [postId, authorId, parentId, reactionCount]
    reactions,      \* Reaction table: set of [id, targetType, targetId, userId]
    notifications,  \* Notification table: sequence of rows, oldest first
    members,        \* GroupMember table: <<groupId, userId>> -> status
    subscriptions,  \* Subscription table: sequence of rows, oldest first
    req,            \* the in-flight requests: slot -> handler state
    started,        \* number of requests started so far
    calls,          \* history: <<targetType, targetId, userId>> -> completed toggles
    pre             \* history: the tables when the last request that started alone began

vars == <<posts, comments, reactions, notifications, members, subscriptions, req, started,
          calls, pre>>

tables == <<posts, comments, reactions, notifications, members, subscriptions>>

(* ------------------------- storage operations -------------------------- *)

\* A value no stored row uses yet: ids are generated by the storage layer and
\* only their distinctness matters.
FreshId(used) == CHOOSE i \in 1..(Cardinality(used) + 1) : i \notin used

ReactionRows(tt, tid, uid) ==
    {r \in reactions : r.targetType = tt /\ r.targetId = tid /\ r.userId = uid}

\* Faulty variant: the lookup leaves the user out of its where clause.
ReactionFindAnyUser(tt, tid, uid) ==
    IF {r \in reactions : r.targetType = tt /\ r.targetId = tid} = {} THEN NoId
    ELSE (CHOOSE r \in reactions : r.targetType = tt /\ r.targetId = tid).id

\* prisma.reaction.findUnique({ where: { targetType_targetId_userId } }):
\* the id of the row, or null.
ReactionFindUnique(tt, tid, uid) ==
    IF ReactionRows(tt, tid, uid) = {} THEN NoId
    ELSE (CHOOSE r \in ReactionRows(tt, tid, uid) : TRUE).id

\* Faulty variant: the table has no unique index on the triple.
NoUniqueIndex(tt, tid, uid) == FALSE

\* The unique index targetType_targetId_userId rejects a second row.
ReactionCreateConflict(tt, tid, uid) == ReactionRows(tt, tid, uid) # {}

\* Row ids some handler still holds from an earlier findUnique.
HeldReactionIds == {req[s].existing : s \in Slots}

NewReactionId == FreshId({r.id : r \in reactions} \cup HeldReactionIds)

\* prisma.reaction.delete({ where: { id } }) throws when no row has the id.
ReactionIdExists(id) == \E r \in reactions : r.id = id

\* data: { field: { increment: n } } / { decrement: n }: the storage layer
\* adds to the stored value in one statement.
IncrementField(value, delta) == value + delta

TargetExists(tt, tid) ==
    IF tt = "post" THEN tid \in DOMAIN posts ELSE tid \in DOMAIN comments

LiveRows(tt, tid) == {r \in reactions : r.targetType = tt /\ r.targetId = tid}

ReactionCount(tt, tid) ==
    IF tt = "post" THEN posts[tid].reactionCount ELSE comments[tid].reactionCount

(* ---------------------------- request slots ---------------------------- *)

IdleReq ==
    [pc |-> "idle", kind |-> "none", userId |-> "none", targetType |-> "none",
     targetId |-> NoId, parentId |-> NoId, groupId |-> "none",
     existing |-> NoId, seen |-> 0, authorId |-> "none", newId |-> NoId,
     recipients |-> {}, status |-> 0, error |-> "none", action |-> "none",
     wrote |-> {}, peers |-> 0, content |-> <<>>,
     page |-> 0, limit |-> 0, cursor |-> NoId, sort |-> "none", unreadOnly |-> FALSE,
     flags |-> [inApp |-> TRUE, email |-> FALSE, push |-> FALSE],
     trail |-> <<>>, skip |-> 0, items |-> <<>>, total |-> 0, unread |-> 0, hasMore |-> FALSE]

Free(s) == req[s].pc \in {"idle", "done"}

InFlight == {s \in Slots : ~Free(s)}

\* A new request takes the lowest free slot (slots are interchangeable).
CanStart(s) ==
    /\ started < MaxRequests
    /\ Free(s)
    /\ \A t \in Slots : t < s => ~Free(t)

AtMostTwo(n) == IF n > 2 THEN 2 ELSE n

\* A request arrives: its handler state is r. History: the number of other
\* requests in flight during its lifetime (peers: none, one, or more), and
\* the tables as a request that starts alone finds them (pre).
Start(s, r) ==
    /\ CanStart(s)
    /\ req' = [t \in Slots |->
                 IF t = s THEN [r EXCEPT !.peers = Cardinality(InFlight)]
                 ELSE IF t \in InFlight THEN [req[t] EXCEPT !.peers = AtMostTwo(@ + 1)]
                 ELSE req[t]]
    /\ started' = started + 1
    /\ pre' = IF InFlight = {}
              THEN [posts |-> posts, comments |-> comments, reactions |-> reactions,
                    notifications |-> notifications, members |-> members,
                    subscriptions |-> subscriptions]
              ELSE pre
    /\ UNCHANGED <<tables, calls>>

Begin(s, kind, first, uid, tt, tid) ==
    Start(s, [IdleReq EXCEPT !.pc = first, !.kind = kind, !.userId = uid,
                             !.targetType = tt, !.targetId = tid])

Goto(s, next) == req' = [req EXCEPT ![s].pc = next]

\* The handler state r once the response is sent: its locals are gone.
Done(r, code, action) ==
    [r EXCEPT !.pc = "done", !.status = code, !.action = action,
              !.existing = NoId, !.seen = 0, !.authorId = "none", !.recipients = {}]

\* res.status(code).json(...): the handler ends.
Respond(s, code, action) == req' = [req EXCEPT ![s] = Done(@, code, action)]

\* catch (error) { next(error) }: the handler sends no response of its own; the
\* request ends as failed (recorded as 500) with the error it passed on.
Throw(s, error) ==
    req' = [req EXCEPT ![s] = [Done(@, 500, "none") EXCEPT !.error = error]]

CallsOf(key) == IF key \in DOMAIN calls THEN calls[key] ELSE 0

CountCall(key) ==
    calls' = [k \in DOMAIN calls \cup {key} |-> IF k = key THEN CallsOf(k) + 1 ELSE calls[k]]

ToggleKey(s) == <<req[s].targetType, req[s].targetId, req[s].userId>>

Wrote(s, what) == [req[s] EXCEPT !.wrote = @ \cup what]

\* prisma.post.update / prisma.comment.update of the target's reactionCount.
UpdateReactionCount(tt, tid, delta) ==
    IF tt = "post"
    THEN /\ posts' = [posts EXCEPT ![tid].reactionCount = IncrementField(@, delta)]
         /\ UNCHANGED comments
    ELSE /\ comments' = [comments EXCEPT ![tid].reactionCount = IncrementField(@, delta)]
         /\ UNCHANGED posts

NotificationIds == {notifications[i].id : i \in DOMAIN notifications}

\* The Notifications of an inbox addressed to anyone but userId, in order.
OthersOf(inbox, userId) == SelectSeq(inbox, LAMBDA n : n.userId # userId)

\* Ids are never reused while a request still carries one in its params.
HeldNotificationIds ==
    {req[s].targetId : s \in {t \in Slots : /\ req[t].pc # "done"
                                            /\ req[t].kind \in {"markRead", "deleteNotification"}}}

NewNotificationId == FreshId(NotificationIds \cup HeldNotificationIds)

\* The row prisma.notification.create writes (createNotification): status
\* 'scheduled', readAt left at its default null.
NotificationRow(id, userId, type, data) ==
    [id |-> id, userId |-> userId, type |-> type, data |-> data,
     status |-> "scheduled", readAt |-> NoId]

\* NotificationService.createNotification: one insert.
CreateNotification(userId, type, data) ==
    notifications' =
        Append(notifications, NotificationRow(NewNotificationId, userId, type, data))

(* ------------------- POST /posts/:id/reactions (toggle) ----------------- *)

PostReactions_Begin(s) ==
    \E uid \in Users, id \in DOMAIN posts \cup {NoId} :
        Begin(s, "postReaction", "pr_findPost", uid, "post", id)

\* const post = await prisma.post.findUnique(...); if (!post) 404
PostReactions_FindPost(s) ==
    /\ req[s].pc = "pr_findPost"
    /\ IF req[s].targetId \in DOMAIN posts
       THEN req' = [req EXCEPT ![s].pc = "pr_findReaction",
                               ![s].seen = posts[req[s].targetId].reactionCount]
       ELSE Respond(s, 404, "none")
    /\ UNCHANGED <<tables, started, calls, pre>>

\* const existingReaction = await prisma.reaction.findUnique(...)
PostReactions_FindReaction(s) ==
    /\ req[s].pc = "pr_findReaction"
    /\ LET found == ReactionFindUnique("post", req[s].targetId, req[s].userId)
       IN req' = [req EXCEPT ![s].existing = found,
                             ![s].pc = IF found # NoId THEN "pr_delete" ELSE "pr_create"]
    /\ UNCHANGED <<tables, started, calls, pre>>

\* await prisma.reaction.delete({ where: { id: existingReaction.id } })
PostReactions_Delete(s) ==
    /\ req[s].pc = "pr_delete"
    /\ IF ReactionIdExists(req[s].existing)
       THEN /\ reactions' = {r \in reactions : r.id # req[s].existing}
            /\ req' = [req EXCEPT ![s] = [Wrote(s, {"rowDeleted"}) EXCEPT !.pc = "pr_decrement"]]
       ELSE /\ Throw(s, "P2025")
            /\ UNCHANGED reactions
    /\ UNCHANGED <<posts, comments, notifications, members, started, calls, pre, subscriptions>>

\* await prisma.post.update({ data: { reactionCount: { decrement: 1 } } });
\* return res.json({ action: 'removed' })
PostReactions_Decrement(s) ==
    /\ req[s].pc = "pr_decrement"
    /\ UpdateReactionCount("post", req[s].targetId, -1)
    /\ req' = [req EXCEPT ![s] = Done(Wrote(s, {"countDown"}), 200, "removed")]
    /\ CountCall(ToggleKey(s))
    /\ UNCHANGED <<reactions, notifications, members, started, pre, subscriptions>>

\* Faulty variant: the notification is sent right after the row is created, before
\* the counter is updated.
PostReactions_CreateThenNotify(s) ==
    /\ req[s].pc = "pr_create"
    /\ IF ReactionCreateConflict("post", req[s].targetId, req[s].userId)
       THEN /\ Throw(s, "P2002")
            /\ UNCHANGED reactions
       ELSE /\ reactions' = reactions \cup
                   {[id |-> NewReactionId, targetType |-> "post",
                     targetId |-> req[s].targetId, userId |-> req[s].userId]}
            /\ req' = [req EXCEPT ![s] = [Wrote(s, {"rowCreated"}) EXCEPT !.pc = "pr_notifyPost"]]
    /\ UNCHANGED <<posts, comments, notifications, members, started, calls, pre, subscriptions>>

\* const reaction = await prisma.reaction.create(...)
PostReactions_Create(s) ==
    /\ req[s].pc = "pr_create"
    /\ IF ReactionCreateConflict("post", req[s].targetId, req[s].userId)
       THEN /\ Throw(s, "P2002")
            /\ UNCHANGED reactions
       ELSE /\ reactions' = reactions \cup
                   {[id |-> NewReactionId, targetType |-> "post",
                     targetId |-> req[s].targetId, userId |-> req[s].userId]}
            /\ req' = [req EXCEPT ![s] = [Wrote(s, {"rowCreated"}) EXCEPT !.pc = "pr_increment"]]
    /\ UNCHANGED <<posts, comments, notifications, members, started, calls, pre, subscriptions>>

\* Faulty variant: the counter is written from the post row read at the start of the
\* handler (reactionCount: post.reactionCount + 1), a read-modify-write.
PostReactions_IncrementStale(s) ==
    /\ req[s].pc = "pr_increment"
    /\ posts' = [posts EXCEPT ![req[s].targetId].reactionCount = req[s].seen + 1]
    /\ req' = [req EXCEPT ![s] = [Wrote(s, {"countUp"}) EXCEPT !.pc = "pr_notifyPost"]]
    /\ UNCHANGED <<comments, reactions, notifications, members, started, calls, pre, subscriptions>>

\* await prisma.post.update({ data: { reactionCount: { increment: 1 } } })
PostReactions_Increment(s) ==
    /\ req[s].pc = "pr_increment"
    /\ UpdateReactionCount("post", req[s].targetId, 1)
    /\ req' = [req EXCEPT ![s] = [Wrote(s, {"countUp"}) EXCEPT !.pc = "pr_notifyPost"]]
    /\ UNCHANGED <<reactions, notifications, members, started, calls, pre, subscriptions>>

\* res.json({ action: 'added', reaction })
PostReactions_Added(s) ==
    /\ Respond(s, 200, "added")
    /\ CountCall(ToggleKey(s))

\* try { const post = await prisma.post.findUnique({ select: { authorId } });
\*       if (post && post.authorId !== userId) sendReactionNotification(...) }
PostReactions_NotifyFindPost(s) ==
    /\ req[s].pc = "pr_notifyPost"
    /\ IF /\ req[s].targetId \in DOMAIN posts
          /\ posts[req[s].targetId].authorId # req[s].userId
       THEN /\ req' = [req EXCEPT ![s].pc = "pr_notifyActor",
                                  ![s].authorId = posts[req[s].targetId].authorId]
            /\ UNCHANGED calls
       ELSE PostReactions_Added(s)
    /\ UNCHANGED <<tables, started, pre>>

\* sendReactionNotification: const reactor = await prisma.user.findUnique(...);
\* if (!reactor || contentAuthorId === reactorId) return;
PostReactions_NotifyFindActor(s) ==
    /\ req[s].pc = "pr_notifyActor"
    /\ IF req[s].userId \in Users /\ req[s].authorId # req[s].userId
       THEN Goto(s, "pr_notifyInsert") /\ UNCHANGED calls
       ELSE PostReactions_Added(s)
    /\ UNCHANGED <<tables, started, pre>>

\* await this.createNotification(contentAuthorId, { type: REACTION, ... })
PostReactions_NotifyInsert(s) ==
    /\ req[s].pc = "pr_notifyInsert"
    /\ CreateNotification(req[s].authorId, "reaction",
           [reactorId |-> req[s].userId, targetType |-> "post",
            targetId |-> req[s].targetId])
    /\ req' = [req EXCEPT ![s] = Done(Wrote(s, {"notified"}), 200, "added")]
    /\ CountCall(ToggleKey(s))
    /\ UNCHANGED <<posts, comments, reactions, members, started, pre, subscriptions>>

\* Faulty variant: the error of the notification try block reaches the handler's
\* outer catch.
PostReactions_NotifyThrows(s) ==
    /\ req[s].pc \in {"pr_notifyPost", "pr_notifyActor", "pr_notifyInsert"}
    /\ Throw(s, "unavailable")
    /\ UNCHANGED <<tables, started, calls, pre>>

\* A storage call inside the notification try block rejects: the catch logs
\* the error (createNotification's own catch, or the handler's) and the
\* handler goes on to its response.
PostReactions_NotifyFails(s) ==
    /\ req[s].pc \in {"pr_notifyPost", "pr_notifyActor", "pr_notifyInsert"}
    /\ req' = [req EXCEPT ![s] = Done(Wrote(s, {"dispatchFailed"}), 200, "added")]
    /\ CountCall(ToggleKey(s))
    /\ UNCHANGED <<tables, started, pre>>

\* Faulty variant: neither the handler nor the builder compares the author
\* with the reacting user.
PostReactions_StepsUnsuppressed(s) ==
    \/ PostReactions_FindPost(s)
    \/ PostReactions_FindReaction(s)
    \/ PostReactions_Delete(s)
    \/ PostReactions_Decrement(s)
    \/ PostReactions_Create(s)
    \/ PostReactions_Increment(s)
    \/ /\ req[s].pc = "pr_notifyPost"
       /\ req[s].targetId \in DOMAIN posts
       /\ req' = [req EXCEPT ![s].pc = "pr_notifyInsert",
                             ![s].authorId = posts[req[s].targetId].authorId]
       /\ UNCHANGED <<tables, started, calls, pre>>
    \/ PostReactions_NotifyInsert(s)
    \/ PostReactions_NotifyFails(s)

PostReactions_Steps(s) ==
    \/ PostReactions_FindPost(s)
    \/ PostReactions_FindReaction(s)
    \/ PostReactions_Delete(s)
    \/ PostReactions_Decrement(s)
    \/ PostReactions_Create(s)
    \/ PostReactions_Increment(s)
    \/ PostReactions_NotifyFindPost(s)
    \/ PostReactions_NotifyFindActor(s)
    \/ PostReactions_NotifyInsert(s)
    \/ PostReactions_NotifyFails(s)

(* ------------------- DELETE /posts/:id/reactions (remove) --------------- *)

DeleteReactions_Begin(s) ==
    \E uid \in Users, id \in DOMAIN posts \cup {NoId} :
        Begin(s, "deleteReaction", "dr_findReaction", uid, "post", id)

\* const reaction = await prisma.reaction.findUnique(...); if (!reaction) 404
DeleteReactions_FindReaction(s) ==
    /\ req[s].pc = "dr_findReaction"
    /\ LET found == ReactionFindUnique("post", req[s].targetId, req[s].userId)
       IN IF found # NoId
          THEN req' = [req EXCEPT ![s].existing = found, ![s].pc = "dr_delete"]
          ELSE Respond(s, 404, "none")
    /\ UNCHANGED <<tables, started, calls, pre>>

\* await prisma.reaction.delete({ where: { id: reaction.id } })
DeleteReactions_Delete(s) ==
    /\ req[s].pc = "dr_delete"
    /\ IF ReactionIdExists(req[s].existing)
       THEN /\ reactions' = {r \in reactions : r.id # req[s].existing}
            /\ req' = [req EXCEPT ![s] = [Wrote(s, {"rowDeleted"}) EXCEPT !.pc = "dr_decrement"]]
       ELSE /\ Throw(s, "P2025")
            /\ UNCHANGED reactions
    /\ UNCHANGED <<posts, comments, notifications, members, started, calls, pre, subscriptions>>

\* Faulty variant: the handler answers without updating the counter.
DeleteReactions_DecrementSkipped(s) ==
    /\ req[s].pc = "dr_decrement"
    /\ Respond(s, 200, "removed")
    /\ UNCHANGED <<tables, started, calls, pre>>

\* await prisma.post.update({ data: { reactionCount: { decrement: 1 } } });
\* res.json({ success: true })
DeleteReactions_Decrement(s) ==
    /\ req[s].pc = "dr_decrement"
    /\ IF req[s].targetId \in DOMAIN posts
       THEN /\ UpdateReactionCount("post", req[s].targetId, -1)
            /\ req' = [req EXCEPT ![s] = Done(Wrote(s, {"countDown"}), 200, "removed")]
       ELSE /\ Throw(s, "P2025")
            /\ UNCHANGED <<posts, comments, subscriptions>>
    /\ UNCHANGED <<reactions, notifications, members, started, calls, pre, subscriptions>>

DeleteReactions_Steps(s) ==
    \/ DeleteReactions_FindReaction(s)
    \/ DeleteReactions_Delete(s)
    \/ DeleteReactions_Decrement(s)

(* ------------------------ POST /reactions (toggle) ---------------------- *)

TargetIds(tt) == IF tt = "post" THEN DOMAIN posts ELSE DOMAIN comments

Reactions_Begin(s) ==
    \E uid \in Users, tt \in TargetTypes :
        \E tid \in TargetIds(tt) \cup {NoId} :
            Begin(s, "reaction", "rx_findReaction", uid, tt, tid)

\* const existingReaction = await prisma.reaction.findUnique(...)
Reactions_FindReaction(s) ==
    /\ req[s].pc = "rx_findReaction"
    /\ LET found == ReactionFindUnique(req[s].targetType, req[s].targetId, req[s].userId)
       IN req' = [req EXCEPT ![s].existing = found,
                             ![s].pc = IF found # NoId THEN "rx_delete" ELSE "rx_create"]
    /\ UNCHANGED <<tables, started, calls, pre>>

\* await prisma.reaction.delete({ where: { id: existingReaction.id } })
Reactions_Delete(s) ==
    /\ req[s].pc = "rx_delete"
    /\ IF ReactionIdExists(req[s].existing)
       THEN /\ reactions' = {r \in reactions : r.id # req[s].existing}
            /\ req' = [req EXCEPT ![s] = [Wrote(s, {"rowDeleted"}) EXCEPT !.pc = "rx_decrement"]]
       ELSE /\ Throw(s, "P2025")
            /\ UNCHANGED reactions
    /\ UNCHANGED <<posts, comments, notifications, members, started, calls, pre, subscriptions>>

\* if (targetType === 'post') post.update(decrement) else if 'comment'
\* comment.update(decrement); return res.json({ action: 'removed' }).
\* update throws when no row has the id.
Reactions_Decrement(s) ==
    /\ req[s].pc = "rx_decrement"
    /\ IF TargetExists(req[s].targetType, req[s].targetId)
       THEN /\ UpdateReactionCount(req[s].targetType, req[s].targetId, -1)
            /\ req' = [req EXCEPT ![s] = Done(Wrote(s, {"countDown"}), 200, "removed")]
            /\ CountCall(ToggleKey(s))
       ELSE /\ Throw(s, "P2025")
            /\ UNCHANGED <<posts, comments, calls, subscriptions>>
    /\ UNCHANGED <<reactions, notifications, members, started, pre, subscriptions>>

\* const reaction = await prisma.reaction.create(...)
Reactions_Create(s) ==
    /\ req[s].pc = "rx_create"
    /\ IF ReactionCreateConflict(req[s].targetType, req[s].targetId, req[s].userId)
       THEN /\ Throw(s, "P2002")
            /\ UNCHANGED reactions
       ELSE /\ reactions' = reactions \cup
                   {[id |-> NewReactionId, targetType |-> req[s].targetType,
                     targetId |-> req[s].targetId, userId |-> req[s].userId]}
            /\ req' = [req EXCEPT ![s] = [Wrote(s, {"rowCreated"}) EXCEPT !.pc = "rx_increment"]]
    /\ UNCHANGED <<posts, comments, notifications, members, started, calls, pre, subscriptions>>

\* post.update(increment) / comment.update(increment);
\* res.status(201).json({ action: 'added', reaction })
Reactions_Increment(s) ==
    /\ req[s].pc = "rx_increment"
    /\ IF TargetExists(req[s].targetType, req[s].targetId)
       THEN /\ UpdateReactionCount(req[s].targetType, req[s].targetId, 1)
            /\ req' = [req EXCEPT ![s] = Done(Wrote(s, {"countUp"}), 201, "added")]
            /\ CountCall(ToggleKey(s))
       ELSE /\ Throw(s, "P2025")
            /\ UNCHANGED <<posts, comments, calls, subscriptions>>
    /\ UNCHANGED <<reactions, notifications, members, started, pre, subscriptions>>

Reactions_Steps(s) ==
    \/ Reactions_FindReaction(s)
    \/ Reactions_Delete(s)
    \/ Reactions_Decrement(s)
    \/ Reactions_Create(s)
    \/ Reactions_Increment(s)

(* --------------------- POST /posts/:id/comments ------------------------- *)

\* Request bodies: content as a sequence of characters.
Contents == {<<>>, <<" ">>, <<"a">>}

RECURSIVE TrimStart(_)
TrimStart(c) == IF c # <<>> /\ Head(c) = " " THEN TrimStart(Tail(c)) ELSE c

RECURSIVE TrimEnd(_)
TrimEnd(c) ==
    IF c # <<>> /\ c[Len(c)] = " " THEN TrimEnd(SubSeq(c, 1, Len(c) - 1)) ELSE c

\* String.prototype.trim
Trim(c) == TrimEnd(TrimStart(c))

NewCommentId == FreshId(DOMAIN comments)

NewPostId == FreshId(DOMAIN posts)

\* if (!content || !content.trim()) return 400, before the first await.
PostComments_Begin(s) ==
    \E uid \in Users, id \in DOMAIN posts \cup {NoId}, content \in Contents,
       parentId \in DOMAIN comments \cup {NoId} :
        Start(s, [IdleReq EXCEPT
                    !.kind = "postComment", !.userId = uid, !.targetType = "post",
                    !.targetId = id, !.parentId = parentId,
                    !.pc = IF Trim(content) = <<>> THEN "done" ELSE "pc_findPost",
                    !.status = IF Trim(content) = <<>> THEN 400 ELSE 0])

\* const post = await prisma.post.findUnique(...); if (!post) 404
PostComments_FindPost(s) ==
    /\ req[s].pc = "pc_findPost"
    /\ IF req[s].targetId \notin DOMAIN posts THEN Respond(s, 404, "none")
       ELSE IF req[s].parentId # NoId THEN Goto(s, "pc_findParent")
       ELSE Goto(s, "pc_create")
    /\ UNCHANGED <<tables, started, calls, pre>>

\* const parentComment = await prisma.comment.findUnique(...);
\* if (!parentComment || parentComment.postId !== id) 400
PostComments_FindParent(s) ==
    /\ req[s].pc = "pc_findParent"
    /\ IF /\ req[s].parentId \in DOMAIN comments
          /\ comments[req[s].parentId].postId = req[s].targetId
       THEN Goto(s, "pc_create")
       ELSE Respond(s, 400, "none")
    /\ UNCHANGED <<tables, started, calls, pre>>

\* const newComment = await prisma.comment.create(...)
PostComments_Create(s) ==
    /\ req[s].pc = "pc_create"
    /\ comments' = [i \in DOMAIN comments \cup {NewCommentId} |->
                      IF i \in DOMAIN comments THEN comments[i]
                      ELSE [postId |-> req[s].targetId, authorId |-> req[s].userId,
                            parentId |-> req[s].parentId, reactionCount |-> 0]]
    /\ req' = [req EXCEPT ![s] = [Wrote(s, {"rowCreated"}) EXCEPT
                                     !.pc = "pc_update", !.newId = NewCommentId]]
    /\ UNCHANGED <<posts, reactions, notifications, members, started, calls, pre, subscriptions>>

\* await prisma.post.update({ data: { commentCount: { increment: 1 } } })
PostComments_Update(s) ==
    /\ req[s].pc = "pc_update"
    /\ posts' = [posts EXCEPT ![req[s].targetId].commentCount = IncrementField(@, 1)]
    /\ req' = [req EXCEPT ![s] = [Wrote(s, {"countUp"}) EXCEPT !.pc = "pc_notifyPost"]]
    /\ UNCHANGED <<comments, reactions, notifications, members, started, calls, pre, subscriptions>>

\* res.status(201).json({ success: true, comment })
PostComments_Created(s, what) ==
    req' = [req EXCEPT ![s] = Done(Wrote(s, what), 201, "created")]

\* try { const post = await prisma.post.findUnique({ select: { authorId } });
\*       if (post && post.authorId !== userId) sendReplyNotification(...) }
PostComments_NotifyFindPost(s) ==
    /\ req[s].pc = "pc_notifyPost"
    /\ IF /\ req[s].targetId \in DOMAIN posts
          /\ posts[req[s].targetId].authorId # req[s].userId
       THEN req' = [req EXCEPT ![s].pc = "pc_notifyActor",
                               ![s].authorId = posts[req[s].targetId].authorId]
       ELSE PostComments_Created(s, {})
    /\ UNCHANGED <<tables, started, calls, pre>>

\* sendReplyNotification: const replier = await prisma.user.findUnique(...);
\* if (!replier || originalAuthorId === replierId) return;
PostComments_NotifyFindActor(s) ==
    /\ req[s].pc = "pc_notifyActor"
    /\ IF req[s].userId \in Users /\ req[s].authorId # req[s].userId
       THEN Goto(s, "pc_notifyInsert")
       ELSE PostComments_Created(s, {})
    /\ UNCHANGED <<tables, started, calls, pre>>

\* await this.createNotification(originalAuthorId, { type: REPLY, ... })
PostComments_NotifyInsert(s) ==
    /\ req[s].pc = "pc_notifyInsert"
    /\ CreateNotification(req[s].authorId, "reply",
           [replierId |-> req[s].userId, postId |-> req[s].targetId,
            commentId |-> req[s].newId])
    /\ PostComments_Created(s, {"notified"})
    /\ UNCHANGED <<posts, comments, reactions, members, started, calls, pre, subscriptions>>

\* A storage call inside the notification try block rejects and is caught.
PostComments_NotifyFails(s) ==
    /\ req[s].pc \in {"pc_notifyPost", "pc_notifyActor", "pc_notifyInsert"}
    /\ PostComments_Created(s, {"dispatchFailed"})
    /\ UNCHANGED <<tables, started, calls, pre>>

PostComments_Steps(s) ==
    \/ PostComments_FindPost(s)
    \/ PostComments_FindParent(s)
    \/ PostComments_Create(s)
    \/ PostComments_Update(s)
    \/ PostComments_NotifyFindPost(s)
    \/ PostComments_NotifyFindActor(s)
    \/ PostComments_NotifyInsert(s)
    \/ PostComments_NotifyFails(s)

(* ------------------------------ POST /posts ----------------------------- *)

\* The Group table is fixed: its rows' owner and visibility.
Groups == {"g1", "g2"}

GroupOwner(g) == IF g = "g1" THEN "u1" ELSE "u2"

GroupVisibility(g) == IF g = "g1" THEN "public" ELSE "private"

\* prisma.groupMember.findUnique({ where: { groupId_userId } }): the row's
\* status, or "none" for null.
MembershipOf(g, uid) == IF <<g, uid>> \in DOMAIN members THEN members[<<g, uid>>] ELSE "none"

\* findMany({ where: { groupId, status: 'active', userId: { not: userId } } })
\* Faulty variant: the status of the membership rows is not filtered.
MembersExcept(g, uid) ==
    {k[2] : k \in {m \in DOMAIN members : m[1] = g /\ m[2] # uid}}

ActiveMembersExcept(g, uid) ==
    {k[2] : k \in {m \in DOMAIN members :
                      m[1] = g /\ m[2] # uid /\ members[m] = "active"}}

\* if (!validatedData.content || !validatedData.content.trim()) return 400
CreatePost_Begin(s) ==
    \E uid \in Users, content \in Contents, g \in Groups \cup {"none"} :
        Start(s, [IdleReq EXCEPT
                    !.kind = "createPost", !.userId = uid, !.groupId = g,
                    !.pc = IF Trim(content) = <<>> THEN "done"
                           ELSE IF g # "none" THEN "cp_findMembership"
                           ELSE "cp_create",
                    !.status = IF Trim(content) = <<>> THEN 400 ELSE 0])

\* Faulty variant: any membership row passes, whatever its status.
CreatePost_FindMembershipAnyStatus(s) ==
    /\ req[s].pc = "cp_findMembership"
    /\ IF MembershipOf(req[s].groupId, req[s].userId) # "none"
       THEN Goto(s, "cp_create")
       ELSE Respond(s, 403, "none")
    /\ UNCHANGED <<tables, started, calls, pre>>

\* const membership = await prisma.groupMember.findUnique(...);
\* if (!membership || membership.status !== 'active') 403
CreatePost_FindMembership(s) ==
    /\ req[s].pc = "cp_findMembership"
    /\ IF MembershipOf(req[s].groupId, req[s].userId) = "active"
       THEN Goto(s, "cp_create")
       ELSE Respond(s, 403, "none")
    /\ UNCHANGED <<tables, started, calls, pre>>

\* res.status(201).json({ success: true, post })
CreatePost_Created(s, what) ==
    req' = [req EXCEPT ![s] = Done(Wrote(s, what), 201, "created")]

\* const newPost = await prisma.post.create(...)
CreatePost_Create(s) ==
    /\ req[s].pc = "cp_create"
    /\ posts' = [i \in DOMAIN posts \cup {NewPostId} |->
                   IF i \in DOMAIN posts THEN posts[i]
                   ELSE [authorId |-> req[s].userId, groupId |-> req[s].groupId,
                         reactionCount |-> 0, commentCount |-> 0]]
    /\ IF req[s].groupId # "none"
       THEN req' = [req EXCEPT ![s] = [Wrote(s, {"rowCreated"}) EXCEPT
                                          !.pc = "cp_findMembers", !.newId = NewPostId]]
       ELSE req' = [req EXCEPT ![s] = Done(Wrote(s, {"rowCreated"}), 201, "created")]
    /\ UNCHANGED <<comments, reactions, notifications, members, started, calls, pre, subscriptions>>

\* try { const groupMembers = await prisma.groupMember.findMany(...);
\*       if (groupMembers.length > 0) createBulkNotifications(memberIds, ...) }
\* The recipients found are kept in the handler until the insert.
CreatePost_FindMembers(s) ==
    /\ req[s].pc = "cp_findMembers"
    /\ IF ActiveMembersExcept(req[s].groupId, req[s].userId) # {}
       THEN req' = [req EXCEPT ![s].pc = "cp_notifyInsert",
                               ![s].recipients =
                                   ActiveMembersExcept(req[s].groupId, req[s].userId)]
       ELSE CreatePost_Created(s, {})
    /\ UNCHANGED <<tables, started, calls, pre>>

RECURSIVE BulkRows(_, _, _, _)
\* userIds.map(userId => ({ userId, ... })): one row per recipient, with ids
\* generated in turn.
BulkRows(userIds, used, type, data) ==
    IF userIds = {} THEN <<>>
    ELSE LET u == CHOOSE x \in userIds : TRUE
             id == FreshId(used)
         IN <<NotificationRow(id, u, type, data)>>
                \o BulkRows(userIds \ {u}, used \cup {id}, type, data)

\* NotificationService.createBulkNotifications: one createMany, which
\* inserts all the rows.
CreateBulkNotifications(userIds, type, data) ==
    notifications' = notifications \o
        BulkRows(userIds, NotificationIds \cup HeldNotificationIds, type, data)

\* await prisma.notification.createMany({ data: notifications })
CreatePost_NotifyInsert(s) ==
    /\ req[s].pc = "cp_notifyInsert"
    /\ CreateBulkNotifications(req[s].recipients, "post_created",
           [postId |-> req[s].newId, groupId |-> req[s].groupId,
            authorId |-> req[s].userId])
    /\ req' = [req EXCEPT ![s] = Done(Wrote(s, {"notified"}), 201, "created")]
    /\ UNCHANGED <<posts, comments, reactions, members, started, calls, pre, subscriptions>>

\* A storage call inside the notification try block rejects and is caught
\* (createMany inserts nothing when it rejects).
CreatePost_NotifyFails(s) ==
    /\ req[s].pc \in {"cp_findMembers", "cp_notifyInsert"}
    /\ req' = [req EXCEPT ![s] = Done(Wrote(s, {"dispatchFailed"}), 201, "created")]
    /\ UNCHANGED <<tables, started, calls, pre>>

CreatePost_Steps(s) ==
    \/ CreatePost_FindMembership(s)
    \/ CreatePost_Create(s)
    \/ CreatePost_FindMembers(s)
    \/ CreatePost_NotifyInsert(s)
    \/ CreatePost_NotifyFails(s)

(* ---------------------------- POST /comments --------------------------- *)

\* createCommentSchema.parse(req.body): content is z.string().min(1), not
\* trimmed; a ZodError goes to next(error) before the first await.
Comments_Begin(s) ==
    \E uid \in Users, id \in DOMAIN posts \cup {NoId}, content \in Contents,
       parentId \in DOMAIN comments \cup {NoId} :
        Start(s, [IdleReq EXCEPT
                    !.kind = "comment", !.userId = uid, !.targetType = "post",
                    !.targetId = id, !.parentId = parentId,
                    !.pc = IF Len(content) < 1 THEN "done" ELSE "cm_findPost",
                    !.status = IF Len(content) < 1 THEN 500 ELSE 0,
                    !.error = IF Len(content) < 1 THEN "ZodError" ELSE "none"])

\* const post = await prisma.post.findUnique(...); if (!post) 404
Comments_FindPost(s) ==
    /\ req[s].pc = "cm_findPost"
    /\ IF req[s].targetId \in DOMAIN posts
       THEN req' = [req EXCEPT ![s].pc = "cm_findMembership",
                               ![s].groupId = posts[req[s].targetId].groupId]
       ELSE Respond(s, 404, "none")
    /\ UNCHANGED <<tables, started, calls, pre>>

\* const membership = await prisma.groupMember.findUnique(...);
\* if (!membership || membership.status !== 'active') 403
Comments_FindMembership(s) ==
    /\ req[s].pc = "cm_findMembership"
    /\ IF MembershipOf(req[s].groupId, req[s].userId) = "active"
       THEN Goto(s, "cm_create")
       ELSE Respond(s, 403, "none")
    /\ UNCHANGED <<tables, started, calls, pre>>

\* const comment = await prisma.comment.create({ data: { ...validatedData,
\*   authorId: userId } })
Comments_Create(s) ==
    /\ req[s].pc = "cm_create"
    /\ comments' = [i \in DOMAIN comments \cup {NewCommentId} |->
                      IF i \in DOMAIN comments THEN comments[i]
                      ELSE [postId |-> req[s].targetId, authorId |-> req[s].userId,
                            parentId |-> req[s].parentId, reactionCount |-> 0]]
    /\ req' = [req EXCEPT ![s] = [Wrote(s, {"rowCreated"}) EXCEPT
                                     !.pc = "cm_update", !.newId = NewCommentId]]
    /\ UNCHANGED <<posts, reactions, notifications, members, started, calls, pre, subscriptions>>

\* Faulty variant: the comment is answered without the counter update.
Comments_UpdateSkipped(s) ==
    /\ req[s].pc = "cm_update"
    /\ req' = [req EXCEPT ![s] = Done(Wrote(s, {"countUp"}), 201, "created")]
    /\ UNCHANGED <<tables, started, calls, pre>>

\* await prisma.post.update({ data: { commentCount: { increment: 1 } } });
\* res.status(201).json({ success: true, comment })
Comments_Update(s) ==
    /\ req[s].pc = "cm_update"
    /\ posts' = [posts EXCEPT ![req[s].targetId].commentCount = IncrementField(@, 1)]
    /\ req' = [req EXCEPT ![s] = Done(Wrote(s, {"countUp"}), 201, "created")]
    /\ UNCHANGED <<comments, reactions, notifications, members, started, calls, pre, subscriptions>>

Comments_Steps(s) ==
    \/ Comments_FindPost(s)
    \/ Comments_FindMembership(s)
    \/ Comments_Create(s)
    \/ Comments_Update(s)

(* ------------------------ POST /groups/:slug/join ----------------------- *)

NoGroup == "gx"

JoinGroup_Begin(s) ==
    \E uid \in Users, slug \in Groups \cup {NoGroup} :
        Start(s, [IdleReq EXCEPT !.kind = "joinGroup", !.userId = uid,
                                 !.groupId = slug, !.pc = "jg_findGroup"])

\* const group = await prisma.group.findUnique({ where: { slug } }); 404
JoinGroup_FindGroup(s) ==
    /\ req[s].pc = "jg_findGroup"
    /\ IF req[s].groupId \in Groups
       THEN Goto(s, "jg_findMembership")
       ELSE Respond(s, 404, "none")
    /\ UNCHANGED <<tables, started, calls, pre>>

\* const existingMembership = await prisma.groupMember.findUnique(...); 400
JoinGroup_FindMembership(s) ==
    /\ req[s].pc = "jg_findMembership"
    /\ IF MembershipOf(req[s].groupId, req[s].userId) = "none"
       THEN Goto(s, "jg_create")
       ELSE Respond(s, 400, "none")
    /\ UNCHANGED <<tables, started, calls, pre>>

\* res.status(201).json({ success: true, membership })
JoinGroup_Joined(s, what) ==
    req' = [req EXCEPT ![s] = Done(Wrote(s, what), 201, "joined")]

\* const membership = await prisma.groupMember.create({ data: { status:
\*   group.visibility === 'public' ? 'active' : 'pending' } });
\* the unique index groupId_userId rejects a second row.
JoinGroup_Create(s) ==
    /\ req[s].pc = "jg_create"
    /\ IF MembershipOf(req[s].groupId, req[s].userId) # "none"
       THEN /\ Throw(s, "P2002")
            /\ UNCHANGED members
       ELSE /\ members' =
                [k \in DOMAIN members \cup {<<req[s].groupId, req[s].userId>>} |->
                    IF k \in DOMAIN members THEN members[k]
                    ELSE IF GroupVisibility(req[s].groupId) = "public"
                         THEN "active" ELSE "pending"]
            /\ IF GroupOwner(req[s].groupId) # req[s].userId
               THEN req' = [req EXCEPT ![s] = [Wrote(s, {"rowCreated"}) EXCEPT
                                                  !.pc = "jg_notifyInsert"]]
               ELSE JoinGroup_Joined(s, {"rowCreated"})
    /\ UNCHANGED <<posts, comments, reactions, notifications, started, calls, pre, subscriptions>>

\* try { if (group.ownerId !== userId) await createNotification(ownerId, ...) }
JoinGroup_NotifyInsert(s) ==
    /\ req[s].pc = "jg_notifyInsert"
    /\ CreateNotification(GroupOwner(req[s].groupId), "group_join_request",
           [groupId |-> req[s].groupId, memberId |-> req[s].userId,
            status |-> MembershipOf(req[s].groupId, req[s].userId)])
    /\ JoinGroup_Joined(s, {"notified"})
    /\ UNCHANGED <<posts, comments, reactions, members, started, calls, pre, subscriptions>>

\* The insert rejects: createNotification's catch logs it.
JoinGroup_NotifyFails(s) ==
    /\ req[s].pc = "jg_notifyInsert"
    /\ JoinGroup_Joined(s, {"dispatchFailed"})
    /\ UNCHANGED <<tables, started, calls, pre>>

JoinGroup_Steps(s) ==
    \/ JoinGroup_FindGroup(s)
    \/ JoinGroup_FindMembership(s)
    \/ JoinGroup_Create(s)
    \/ JoinGroup_NotifyInsert(s)
    \/ JoinGroup_NotifyFails(s)

(* ------------------- NotificationService, called directly -------------- *)

\* The service call returns to its caller (Promise<void> resolves). The
\* call's arguments stay in the slot.
Returned(s, what) ==
    req' = [req EXCEPT ![s] = [Wrote(s, what) EXCEPT !.pc = "done", !.action = "returned"]]

\* NotificationService.createNotification(userId, payload)
Notify_Begin(s) ==
    \E userId \in Users :
        Start(s, [IdleReq EXCEPT !.kind = "notify", !.pc = "nf_insert",
                                 !.recipients = {userId}])

\* await prisma.notification.create({ data: { userId, ..., status: 'scheduled' } })
Notify_Insert(s) ==
    /\ req[s].pc = "nf_insert"
    /\ \E userId \in req[s].recipients :
           CreateNotification(userId, "system_announcement", [targetId |-> NoId])
    /\ Returned(s, {"notified"})
    /\ UNCHANGED <<posts, comments, reactions, members, started, calls, pre, subscriptions>>

\* Faulty variant: the rejection of the insert is passed on to the caller.
Notify_InsertRaises(s) ==
    /\ req[s].pc = "nf_insert"
    /\ req' = [req EXCEPT ![s] = [req[s] EXCEPT !.pc = "done", !.action = "raised",
                                                !.error = "unavailable"]]
    /\ UNCHANGED <<tables, started, calls, pre>>

\* The insert rejects: catch (error) { console.error(...) }
Notify_InsertFails(s) ==
    /\ req[s].pc = "nf_insert"
    /\ Returned(s, {"dispatchFailed"})
    /\ UNCHANGED <<tables, started, calls, pre>>

Notify_Steps(s) ==
    \/ Notify_Insert(s)
    \/ Notify_InsertFails(s)

\* NotificationService.createBulkNotifications(userIds, payload)
NotifyMany_Begin(s) ==
    \E userIds \in SUBSET Users :
        Start(s, [IdleReq EXCEPT !.kind = "notifyMany", !.pc = "nm_insert",
                                 !.recipients = userIds])

\* Faulty variant: the rows are inserted one by one and the insert stops
\* after the first.
NotifyMany_InsertFirstOnly(s) ==
    /\ req[s].pc = "nm_insert"
    /\ \E userIds \in SUBSET req[s].recipients :
           /\ Cardinality(userIds) <= 1
           /\ CreateBulkNotifications(userIds, "system_announcement", [targetId |-> NoId])
    /\ Returned(s, {"notified"})
    /\ UNCHANGED <<posts, comments, reactions, members, started, calls, pre, subscriptions>>

\* await prisma.notification.createMany({ data: notifications })
NotifyMany_Insert(s) ==
    /\ req[s].pc = "nm_insert"
    /\ CreateBulkNotifications(req[s].recipients, "system_announcement",
                               [targetId |-> NoId])
    /\ Returned(s, {"notified"})
    /\ UNCHANGED <<posts, comments, reactions, members, started, calls, pre, subscriptions>>

\* createMany rejects and inserts nothing: catch (error) { console.error(...) }
NotifyMany_InsertFails(s) ==
    /\ req[s].pc = "nm_insert"
    /\ Returned(s, {"dispatchFailed"})
    /\ UNCHANGED <<tables, started, calls, pre>>

NotifyMany_Steps(s) ==
    \/ NotifyMany_Insert(s)
    \/ NotifyMany_InsertFails(s)

(* ------------------------- notification builders ------------------------ *)

\* The builders are called with any strings: user ids that match a user, or
\* one that matches none.
NoUser == "ux"

ActorIds == Users \cup {NoUser}

\* content.substring(0, 100) + (content.length > 100 ? '...' : '')
TruncateLimit == 100

Ellipsis == <<".", ".", ".">>

\* A content string of n characters, no two neighbours alike.
ContentOfLength(n) ==
    [i \in 1..n |-> IF i % 3 = 1 THEN "a" ELSE IF i % 3 = 2 THEN "b" ELSE "c"]

BuilderContents ==
    {ContentOfLength(n) : n \in {TruncateLimit - 1, TruncateLimit,
                                 TruncateLimit + 1, TruncateLimit + 2}}

\* String.prototype.substring(0, end)
Substring(c, end) == SubSeq(c, 1, IF Len(c) < end THEN Len(c) ELSE end)

\* Faulty variant: content of exactly the limit is marked as cut as well.
TruncateFromLimit(c) ==
    Substring(c, TruncateLimit) \o (IF Len(c) >= TruncateLimit THEN Ellipsis ELSE <<>>)

Truncate(c) ==
    Substring(c, TruncateLimit) \o (IF Len(c) > TruncateLimit THEN Ellipsis ELSE <<>>)

\* The number of builder calls in a behaviour.
MaxCalls == 2

Call(s, r) == started < MaxCalls /\ Start(s, r)

\* prisma.user.findUnique rejects: the builders have no try around it, the
\* rejection goes to the caller.
Builder_LookupFails(s) ==
    /\ req[s].pc \in {"mn_findActor", "rp_findActor", "rn_findActor"}
    /\ req' = [req EXCEPT ![s] = [Wrote(s, {"lookupFailed"}) EXCEPT
                                     !.pc = "done", !.action = "raised",
                                     !.error = "unavailable"]]
    /\ UNCHANGED <<tables, started, calls, pre>>

\* this.createNotification's insert rejects and is caught there.
Builder_InsertFails(s) ==
    /\ req[s].pc \in {"mn_insert", "rp_insert", "rn_insert"}
    /\ Returned(s, {"dispatchFailed"})
    /\ UNCHANGED <<tables, started, calls, pre>>

\* NotificationService.sendMentionNotification(mentionedUserId, mentionerId,
\*   targetType, targetId, content)
Mention_Begin(s) ==
    \E mentionedUserId \in Users, mentionerId \in ActorIds, content \in BuilderContents :
        Call(s, [IdleReq EXCEPT !.kind = "sendMention", !.pc = "mn_findActor",
                                !.authorId = mentionedUserId, !.userId = mentionerId,
                                !.targetType = "post", !.targetId = 1,
                                !.content = content])

\* const mentioner = await prisma.user.findUnique(...); if (!mentioner) return;
Mention_FindActor(s) ==
    /\ req[s].pc = "mn_findActor"
    /\ IF req[s].userId \in Users THEN Goto(s, "mn_insert") ELSE Returned(s, {})
    /\ UNCHANGED <<tables, started, calls, pre>>

\* await this.createNotification(mentionedUserId, { type: MENTION, ... })
Mention_Insert(s) ==
    /\ req[s].pc = "mn_insert"
    /\ CreateNotification(req[s].authorId, "mention",
           [mentionerId |-> req[s].userId, targetType |-> req[s].targetType,
            targetId |-> req[s].targetId, content |-> Truncate(req[s].content)])
    /\ Returned(s, {"notified"})
    /\ UNCHANGED <<posts, comments, reactions, members, started, calls, pre, subscriptions>>

\* NotificationService.sendReplyNotification(originalAuthorId, replierId,
\*   postId, commentId, content)
Reply_Begin(s) ==
    \E originalAuthorId \in Users, replierId \in ActorIds, content \in BuilderContents :
        Call(s, [IdleReq EXCEPT !.kind = "sendReply", !.pc = "rp_findActor",
                                !.authorId = originalAuthorId, !.userId = replierId,
                                !.targetType = "post", !.targetId = 1, !.newId = 1,
                                !.content = content])

\* Faulty variant: a replier that is not found is not a reason to return.
Reply_FindActorUnchecked(s) ==
    /\ req[s].pc = "rp_findActor"
    /\ IF req[s].authorId # req[s].userId THEN Goto(s, "rp_insert") ELSE Returned(s, {})
    /\ UNCHANGED <<tables, started, calls, pre>>

\* const replier = await prisma.user.findUnique(...);
\* if (!replier || originalAuthorId === replierId) return;
Reply_FindActor(s) ==
    /\ req[s].pc = "rp_findActor"
    /\ IF req[s].userId \in Users /\ req[s].authorId # req[s].userId
       THEN Goto(s, "rp_insert")
       ELSE Returned(s, {})
    /\ UNCHANGED <<tables, started, calls, pre>>

\* await this.createNotification(originalAuthorId, { type: REPLY, ... })
Reply_Insert(s) ==
    /\ req[s].pc = "rp_insert"
    /\ CreateNotification(req[s].authorId, "reply",
           [replierId |-> req[s].userId, postId |-> req[s].targetId,
            commentId |-> req[s].newId, content |-> Truncate(req[s].content)])
    /\ Returned(s, {"notified"})
    /\ UNCHANGED <<posts, comments, reactions, members, started, calls, pre, subscriptions>>

\* NotificationService.sendReactionNotification(contentAuthorId, reactorId,
\*   targetType, targetId, reactionType)
Reaction_Begin(s) ==
    \E contentAuthorId \in Users, reactorId \in ActorIds, tt \in TargetTypes :
        Call(s, [IdleReq EXCEPT !.kind = "sendReaction", !.pc = "rn_findActor",
                                !.authorId = contentAuthorId, !.userId = reactorId,
                                !.targetType = tt, !.targetId = 1])

\* const reactor = await prisma.user.findUnique(...);
\* if (!reactor || contentAuthorId === reactorId) return;
Reaction_FindActor(s) ==
    /\ req[s].pc = "rn_findActor"
    /\ IF req[s].userId \in Users /\ req[s].authorId # req[s].userId
       THEN Goto(s, "rn_insert")
       ELSE Returned(s, {})
    /\ UNCHANGED <<tables, started, calls, pre>>

\* await this.createNotification(contentAuthorId, { type: REACTION, ... })
Reaction_Insert(s) ==
    /\ req[s].pc = "rn_insert"
    /\ CreateNotification(req[s].authorId, "reaction",
           [reactorId |-> req[s].userId, targetType |-> req[s].targetType,
            targetId |-> req[s].targetId])
    /\ Returned(s, {"notified"})
    /\ UNCHANGED <<posts, comments, reactions, members, started, calls, pre, subscriptions>>

BuilderBegins(s) ==
    \/ Mention_Begin(s)
    \/ Reply_Begin(s)
    \/ Reaction_Begin(s)

BuilderSteps(s) ==
    \/ Mention_FindActor(s)
    \/ Mention_Insert(s)
    \/ Reply_FindActor(s)
    \/ Reply_Insert(s)
    \/ Reaction_FindActor(s)
    \/ Reaction_Insert(s)
    \/ Builder_LookupFails(s)
    \/ Builder_InsertFails(s)

(* --------------------------- notification routes ------------------------ *)

\* new Date(): the clock, read as the number of requests that have arrived.
Now == started

NotificationWithId(id) ==
    notifications[CHOOSE i \in DOMAIN notifications : notifications[i].id = id]

\* POST /notifications/:id/read
MarkRead_Begin(s) ==
    \E uid \in Users, id \in NotificationIds \cup {NoId} :
        Begin(s, "markRead", "mr_find", uid, "notification", id)

\* Faulty variant: the ownership of the row is not looked at.
MarkRead_FindAnyOwner(s) ==
    /\ req[s].pc = "mr_find"
    /\ IF req[s].targetId \notin NotificationIds THEN Respond(s, 404, "none")
       ELSE Goto(s, "mr_update")
    /\ UNCHANGED <<tables, started, calls, pre>>

\* const notification = await prisma.notification.findUnique({ where: { id } });
\* if (!notification) 404; if (notification.userId !== userId) 403
MarkRead_Find(s) ==
    /\ req[s].pc = "mr_find"
    /\ IF req[s].targetId \notin NotificationIds THEN Respond(s, 404, "none")
       ELSE IF NotificationWithId(req[s].targetId).userId # req[s].userId
            THEN Respond(s, 403, "none")
       ELSE Goto(s, "mr_update")
    /\ UNCHANGED <<tables, started, calls, pre>>

\* Faulty variant: marking a row that is already read puts it back to unread.
MarkRead_UpdateToggles(s) ==
    /\ req[s].pc = "mr_update"
    /\ req[s].targetId \in NotificationIds
    /\ notifications' =
           [i \in DOMAIN notifications |->
               IF notifications[i].id = req[s].targetId
               THEN IF notifications[i].readAt = NoId
                    THEN [notifications[i] EXCEPT !.readAt = Now, !.status = "delivered"]
                    ELSE [notifications[i] EXCEPT !.readAt = NoId, !.status = "scheduled"]
               ELSE notifications[i]]
    /\ Respond(s, 200, "read")
    /\ UNCHANGED <<posts, comments, reactions, members, started, calls, pre, subscriptions>>

\* Faulty variant: the update writes readAt and leaves status as it is.
MarkRead_UpdateReadAtOnly(s) ==
    /\ req[s].pc = "mr_update"
    /\ req[s].targetId \in NotificationIds
    /\ notifications' =
           [i \in DOMAIN notifications |->
               IF notifications[i].id = req[s].targetId
               THEN [notifications[i] EXCEPT !.readAt = Now]
               ELSE notifications[i]]
    /\ Respond(s, 200, "read")
    /\ UNCHANGED <<posts, comments, reactions, members, started, calls, pre, subscriptions>>

\* await prisma.notification.update({ where: { id },
\*   data: { readAt: new Date(), status: 'delivered' } }); res.json(...)
\* The update throws when the row is gone.
MarkRead_Update(s) ==
    /\ req[s].pc = "mr_update"
    /\ IF req[s].targetId \in NotificationIds
       THEN /\ notifications' =
                   [i \in DOMAIN notifications |->
                       IF notifications[i].id = req[s].targetId
                       THEN [notifications[i] EXCEPT !.readAt = Now, !.status = "delivered"]
                       ELSE notifications[i]]
            /\ Respond(s, 200, "read")
       ELSE /\ Throw(s, "P2025")
            /\ UNCHANGED notifications
    /\ UNCHANGED <<posts, comments, reactions, members, started, calls, pre, subscriptions>>

MarkRead_Steps(s) ==
    \/ MarkRead_Find(s)
    \/ MarkRead_Update(s)

\* POST /notifications/read-all
ReadAll_Begin(s) ==
    \E uid \in Users : Begin(s, "markAllRead", "ra_update", uid, "notification", NoId)

\* Faulty variant: the updateMany has no readAt: null in its where clause.
ReadAll_UpdateAll(s) ==
    /\ req[s].pc = "ra_update"
    /\ notifications' =
           [i \in DOMAIN notifications |->
               IF notifications[i].userId = req[s].userId
               THEN [notifications[i] EXCEPT !.readAt = Now, !.status = "delivered"]
               ELSE notifications[i]]
    /\ Respond(s, 200, "readAll")
    /\ UNCHANGED <<posts, comments, reactions, members, started, calls, pre, subscriptions>>

\* await prisma.notification.updateMany({ where: { userId, readAt: null },
\*   data: { readAt: new Date(), status: 'delivered' } }); res.json(...)
ReadAll_Update(s) ==
    /\ req[s].pc = "ra_update"
    /\ notifications' =
           [i \in DOMAIN notifications |->
               IF notifications[i].userId = req[s].userId /\ notifications[i].readAt = NoId
               THEN [notifications[i] EXCEPT !.readAt = Now, !.status = "delivered"]
               ELSE notifications[i]]
    /\ Respond(s, 200, "readAll")
    /\ UNCHANGED <<posts, comments, reactions, members, started, calls, pre, subscriptions>>

\* DELETE /notifications/:id
DeleteNotification_Begin(s) ==
    \E uid \in Users, id \in NotificationIds \cup {NoId} :
        Begin(s, "deleteNotification", "dn_find", uid, "notification", id)

\* Faulty variant: the ownership of the row is not looked at.
DeleteNotification_FindAnyOwner(s) ==
    /\ req[s].pc = "dn_find"
    /\ IF req[s].targetId \notin NotificationIds THEN Respond(s, 404, "none")
       ELSE Goto(s, "dn_delete")
    /\ UNCHANGED <<tables, started, calls, pre>>

\* findUnique; if (!notification) 404; if (notification.userId !== userId) 403
DeleteNotification_Find(s) ==
    /\ req[s].pc = "dn_find"
    /\ IF req[s].targetId \notin NotificationIds THEN Respond(s, 404, "none")
       ELSE IF NotificationWithId(req[s].targetId).userId # req[s].userId
            THEN Respond(s, 403, "none")
       ELSE Goto(s, "dn_delete")
    /\ UNCHANGED <<tables, started, calls, pre>>

\* Faulty variant: the delete removes by recipient instead of by id.
DeleteNotification_DeleteAllOfUser(s) ==
    /\ req[s].pc = "dn_delete"
    /\ notifications' = OthersOf(notifications, req[s].userId)
    /\ Respond(s, 200, "deleted")
    /\ UNCHANGED <<posts, comments, reactions, members, started, calls, pre, subscriptions>>

\* await prisma.notification.delete({ where: { id } }); res.json(...)
DeleteNotification_Delete(s) ==
    /\ req[s].pc = "dn_delete"
    /\ IF req[s].targetId \in NotificationIds
       THEN /\ notifications' =
                   SelectSeq(notifications, LAMBDA n : n.id # req[s].targetId)
            /\ Respond(s, 200, "deleted")
       ELSE /\ Throw(s, "P2025")
            /\ UNCHANGED notifications
    /\ UNCHANGED <<posts, comments, reactions, members, started, calls, pre, subscriptions>>

DeleteNotification_Steps(s) ==
    \/ DeleteNotification_Find(s)
    \/ DeleteNotification_Delete(s)

\* GET /notifications?page=&limit=&unreadOnly=
\* const skip = (Number(page) - 1) * Number(limit);
List_Request(s, pages, limits, filters) ==
    \E uid \in Users, page \in pages, limit \in limits, unreadOnly \in filters :
        Start(s, [IdleReq EXCEPT !.kind = "list", !.pc = "ls_findMany", !.userId = uid,
                                 !.targetType = "notification",
                                 !.page = page, !.limit = limit, !.unreadOnly = unreadOnly,
                                 !.skip = (page - 1) * limit])

\* const { page = 1, limit = 20, unreadOnly = false } = req.query
DefaultPage == 1

DefaultLimit == 20

\* The request without query parameters.
List_Begin(s) == List_Request(s, {DefaultPage}, {DefaultLimit}, {FALSE})

ListPages == {1, 2}

ListLimits == {1, 2, DefaultLimit}

\* The request with page, limit and unreadOnly given.
ListPaged_Begin(s) == List_Request(s, ListPages, ListLimits, BOOLEAN)

Reverse(seq) == [i \in 1..Len(seq) |-> seq[Len(seq) + 1 - i]]

\* findMany({ skip, take }) over the ordered rows
SkipTake(seq, skip, take) ==
    SubSeq(seq, skip + 1, IF Len(seq) < skip + take THEN Len(seq) ELSE skip + take)

\* where = { userId } and, if (unreadOnly === 'true'), where.readAt = null
ListWhere(n, userId, unreadOnly) ==
    /\ n.userId = userId
    /\ unreadOnly => n.readAt = NoId

\* Faulty variant: the unread count is taken over the same where clause as
\* the page.
UnreadWhereFiltered(n, userId, unreadOnly) == ListWhere(n, userId, unreadOnly)

\* count({ where: { userId, readAt: null } })
UnreadWhere(n, userId, unreadOnly) == n.userId = userId /\ n.readAt = NoId

\* prisma.notification.findMany({ where, orderBy: { createdAt: 'desc' }, skip,
\*   take }), mapped to { id, ..., isRead: notification.readAt !== null }
List_FindMany(s) ==
    /\ req[s].pc = "ls_findMany"
    /\ LET found == SkipTake(
                        Reverse(SelectSeq(notifications,
                            LAMBDA n : ListWhere(n, req[s].userId, req[s].unreadOnly))),
                        req[s].skip, req[s].limit)
       IN req' = [req EXCEPT ![s].pc = "ls_count",
                             ![s].items = [i \in 1..Len(found) |->
                                              [id |-> found[i].id,
                                               isRead |-> found[i].readAt # NoId]]]
    /\ UNCHANGED <<tables, started, calls, pre>>

\* prisma.notification.count({ where })
List_Count(s) ==
    /\ req[s].pc = "ls_count"
    /\ req' = [req EXCEPT ![s].pc = "ls_unread",
                          ![s].total = Len(SelectSeq(notifications,
                              LAMBDA n : ListWhere(n, req[s].userId, req[s].unreadOnly)))]
    /\ UNCHANGED <<tables, started, calls, pre>>

\* prisma.notification.count({ where: { userId, readAt: null } });
\* res.json({ success: true, notifications, unreadCount, pagination })
List_Query(s) ==
    /\ req[s].pc = "ls_unread"
    /\ req' = [req EXCEPT ![s] =
                  [Done(@, 200, "listed") EXCEPT
                      !.unread = Len(SelectSeq(notifications,
                          LAMBDA n : UnreadWhere(n, req[s].userId, req[s].unreadOnly)))]]
    /\ UNCHANGED <<tables, started, calls, pre>>

List_Steps(s) ==
    \/ List_FindMany(s)
    \/ List_Count(s)
    \/ List_Query(s)

(* ------------------------------ subscriptions --------------------------- *)

\* req.body of POST /subscriptions: inApp = true, email = false, push = false
\* when left out.
DefaultFlags == [inApp |-> TRUE, email |-> FALSE, push |-> FALSE]

SubscribeFlags ==
    {DefaultFlags,
     [inApp |-> FALSE, email |-> TRUE, push |-> FALSE],
     [inApp |-> TRUE, email |-> TRUE, push |-> TRUE]}

SubscriptionTargets == {<<"post", 1>>, <<"group", 1>>}

\* The unique index userId_targetType_targetId.
SubscriptionKey(r) == <<r.userId, r.targetType, r.targetId>>

SubscriptionKeys(registry) == {SubscriptionKey(registry[i]) : i \in DOMAIN registry}

SubscriptionRow(r) ==
    [userId |-> r.userId, targetType |-> r.targetType, targetId |-> r.targetId,
     inApp |-> r.flags.inApp, email |-> r.flags.email, push |-> r.flags.push]

\* POST /subscriptions
Subscribe_Begin(s) ==
    \E uid \in Users, target \in SubscriptionTargets, flags \in SubscribeFlags :
        Start(s, [IdleReq EXCEPT !.kind = "subscribe", !.pc = "sb_upsert", !.userId = uid,
                                 !.targetType = target[1], !.targetId = target[2],
                                 !.flags = flags])

\* Faulty variant: the update branch switches channels on and never off.
Subscribe_UpsertMerges(s) ==
    /\ req[s].pc = "sb_upsert"
    /\ subscriptions' =
           IF SubscriptionKey(req[s]) \in SubscriptionKeys(subscriptions)
           THEN [i \in DOMAIN subscriptions |->
                    IF SubscriptionKey(subscriptions[i]) = SubscriptionKey(req[s])
                    THEN [subscriptions[i] EXCEPT !.inApp = @ \/ req[s].flags.inApp,
                                                  !.email = @ \/ req[s].flags.email,
                                                  !.push = @ \/ req[s].flags.push]
                    ELSE subscriptions[i]]
           ELSE Append(subscriptions, SubscriptionRow(req[s]))
    /\ Respond(s, 201, "subscribed")
    /\ CountCall(<<"subscribe">> \o SubscriptionKey(req[s]))
    /\ UNCHANGED <<posts, comments, reactions, notifications, members, started, pre>>

\* await prisma.subscription.upsert({ where: { userId_targetType_targetId },
\*   update: { inApp, email, push }, create: { ... } }); res.status(201).json(...)
\* The row keeps its createdAt, hence its place, when it is updated.
Subscribe_Upsert(s) ==
    /\ req[s].pc = "sb_upsert"
    /\ subscriptions' =
           IF SubscriptionKey(req[s]) \in SubscriptionKeys(subscriptions)
           THEN [i \in DOMAIN subscriptions |->
                    IF SubscriptionKey(subscriptions[i]) = SubscriptionKey(req[s])
                    THEN SubscriptionRow(req[s])
                    ELSE subscriptions[i]]
           ELSE Append(subscriptions, SubscriptionRow(req[s]))
    /\ Respond(s, 201, "subscribed")
    /\ CountCall(<<"subscribe">> \o SubscriptionKey(req[s]))
    /\ UNCHANGED <<posts, comments, reactions, notifications, members, started, pre>>

\* DELETE /subscriptions/:targetType/:targetId
Unsubscribe_Begin(s) ==
    \E uid \in Users, target \in SubscriptionTargets :
        Begin(s, "unsubscribe", "us_delete", uid, target[1], target[2])

\* Faulty variant: a deleteMany, which removes what matches and never throws.
Unsubscribe_DeleteMany(s) ==
    /\ req[s].pc = "us_delete"
    /\ subscriptions' =
           SelectSeq(subscriptions, LAMBDA r : SubscriptionKey(r) # SubscriptionKey(req[s]))
    /\ Respond(s, 200, "unsubscribed")
    /\ UNCHANGED <<posts, comments, reactions, notifications, members, started, calls, pre>>

\* await prisma.subscription.delete({ where: { userId_targetType_targetId } });
\* res.json(...). The delete throws when there is no such row, and the
\* handler's catch passes the error on.
Unsubscribe_Delete(s) ==
    /\ req[s].pc = "us_delete"
    /\ IF SubscriptionKey(req[s]) \in SubscriptionKeys(subscriptions)
       THEN /\ subscriptions' =
                   SelectSeq(subscriptions,
                             LAMBDA r : SubscriptionKey(r) # SubscriptionKey(req[s]))
            /\ Respond(s, 200, "unsubscribed")
       ELSE /\ Throw(s, "P2025")
            /\ UNCHANGED subscriptions
    /\ UNCHANGED <<posts, comments, reactions, notifications, members, started, calls, pre>>

\* GET /subscriptions
ListSubscriptions_Begin(s) ==
    \E uid \in Users :
        Begin(s, "listSubscriptions", "lsub_findMany", uid, "subscription", NoId)

\* await prisma.subscription.findMany({ where: { userId },
\*   orderBy: { createdAt: 'desc' } }); res.json(...)
ListSubscriptions_FindMany(s) ==
    /\ req[s].pc = "lsub_findMany"
    /\ req' = [req EXCEPT ![s] =
                 [Done(@, 200, "listed") EXCEPT
                     !.items = Reverse(SelectSeq(subscriptions,
                                                 LAMBDA r : r.userId = req[s].userId))]]
    /\ UNCHANGED <<tables, started, calls, pre>>

\* What the error middleware mounted behind the router makes of an error a
\* handler passes on: a record that an operation requires and does not find
\* is NotFound, a unique-key violation is Conflict.
ErrorKind(error) ==
    CASE error = "P2025" -> "NotFound"
      [] error = "P2002" -> "Conflict"
      [] OTHER -> "Internal"

SubscriptionBegins(s) ==
    \/ Subscribe_Begin(s)
    \/ Unsubscribe_Begin(s)
    \/ ListSubscriptions_Begin(s)

SubscriptionSteps(s) ==
    \/ Subscribe_Upsert(s)
    \/ Unsubscribe_Delete(s)
    \/ ListSubscriptions_FindMany(s)

(* ---------------------------------- feed -------------------------------- *)

FeedSorts == {"new", "top", "trending"}

FeedPages == {1, 2}

FeedLimits == {1, 2}

\* Faulty variant: the page offset is used whether or not a cursor is given.
FeedSkipByPage(page, limit, cursor) == (page - 1) * limit

\* const skip = cursor ? 0 : (Number(page) - 1) * Number(limit);
FeedSkip(page, limit, cursor) == IF cursor # NoId THEN 0 ELSE (page - 1) * limit

\* GET /posts?sort=&page=&limit=&cursor=&groupId= (no search term). The posts
\* of the model are all published.
Feed_Begin(s) ==
    \E sort \in FeedSorts, page \in FeedPages, limit \in FeedLimits,
       cursor \in DOMAIN posts \cup {NoId}, g \in {"none", "g1"} :
        Start(s, [IdleReq EXCEPT !.kind = "feed", !.pc = "fd_findMany",
                                 !.targetType = "post", !.sort = sort, !.page = page,
                                 !.limit = limit, !.cursor = cursor, !.groupId = g,
                                 !.skip = FeedSkip(page, limit, cursor)])

\* where = { status: 'published' }; if (cursor) where.id = { lt: cursor };
\* if (groupId) where.groupId = groupId
FeedWhere(id, cursor, g) ==
    /\ cursor # NoId => id < cursor
    /\ g # "none" => posts[id].groupId = g

FeedMatching(cursor, g) == {id \in DOMAIN posts : FeedWhere(id, cursor, g)}

\* orderBy: may a come before b. createdAt grows with the id; 'top' orders by
\* reactionCount alone and leaves the order of equal counts to the database.
FeedBefore(a, b, sort) ==
    CASE sort = "top" -> posts[a].reactionCount >= posts[b].reactionCount
      [] sort = "trending" ->
             \/ posts[a].reactionCount > posts[b].reactionCount
             \/ posts[a].reactionCount = posts[b].reactionCount /\ a > b
      [] OTHER -> a > b

\* The orders in which findMany may return the rows ids.
FeedOrderings(ids, sort) ==
    {f \in [1..Cardinality(ids) -> ids] :
        \A i, j \in 1..Cardinality(ids) : i < j => f[i] # f[j] /\ FeedBefore(f[i], f[j], sort)}

\* posts.map(post => ({ ...post, reactionCount: post._count.reactions, ... }))
FeedItem(id) == [id |-> id, reactionCount |-> Cardinality(LiveRows("post", id))]

\* const posts = await prisma.post.findMany({ where, orderBy, skip, take })
Feed_FindMany(s) ==
    /\ req[s].pc = "fd_findMany"
    /\ \E f \in FeedOrderings(FeedMatching(req[s].cursor, req[s].groupId), req[s].sort) :
           LET page == SkipTake(f, req[s].skip, req[s].limit) IN
           req' = [req EXCEPT ![s].pc = "fd_count",
                              ![s].items = [i \in DOMAIN page |-> FeedItem(page[i])]]
    /\ UNCHANGED <<tables, started, calls, pre>>

\* Faulty variant: the last full page still reports more.
HasMoreInclusive(skip, limit, total) == skip + limit <= total

\* hasMore: skip + Number(limit) < total
HasMore(skip, limit, total) == skip + limit < total

\* const total = await prisma.post.count({ where }); res.json(...)
Feed_Count(s) ==
    /\ req[s].pc = "fd_count"
    /\ LET total == Cardinality(FeedMatching(req[s].cursor, req[s].groupId)) IN
       req' = [req EXCEPT ![s] =
                 [Done(@, 200, "listed") EXCEPT
                     !.total = total,
                     !.hasMore = HasMore(req[s].skip, req[s].limit, total)]]
    /\ UNCHANGED <<tables, started, calls, pre>>

Feed_Steps(s) ==
    \/ Feed_FindMany(s)
    \/ Feed_Count(s)

\* A client reading the feed from its start: no cursor, the first page.
Traverse_Begin(s) ==
    \E sort \in FeedSorts, limit \in FeedLimits, g \in {"none", "g1"} :
        Start(s, [IdleReq EXCEPT !.kind = "feed", !.pc = "fd_findMany",
                                 !.targetType = "post", !.sort = sort, !.page = DefaultPage,
                                 !.limit = limit, !.cursor = NoId, !.groupId = g,
                                 !.skip = FeedSkip(DefaultPage, limit, NoId)])

\* The client asks for the next page while hasMore is true: the same query
\* with cursor = the id of the last item it was given. trail keeps the ids it
\* was given before.
Traverse_Next(s) ==
    /\ req[s].pc = "done" /\ req[s].kind = "feed"
    /\ req[s].hasMore /\ req[s].items # <<>>
    /\ LET cursor == req[s].items[Len(req[s].items)].id IN
       Start(s, [IdleReq EXCEPT !.kind = "feed", !.pc = "fd_findMany",
                                !.targetType = "post", !.sort = req[s].sort,
                                !.page = req[s].page, !.limit = req[s].limit,
                                !.cursor = cursor, !.groupId = req[s].groupId,
                                !.skip = FeedSkip(req[s].page, req[s].limit, cursor),
                                !.trail = req[s].trail \o
                                          [i \in DOMAIN req[s].items |-> req[s].items[i].id]])

InboxBegins(s) ==
    \/ Notify_Begin(s)
    \/ NotifyMany_Begin(s)
    \/ MarkRead_Begin(s)
    \/ ReadAll_Begin(s)
    \/ DeleteNotification_Begin(s)
    \/ List_Begin(s)

InboxSteps(s) ==
    \/ Notify_Steps(s)
    \/ NotifyMany_Steps(s)
    \/ MarkRead_Steps(s)
    \/ ReadAll_Update(s)
    \/ DeleteNotification_Steps(s)
    \/ List_Steps(s)

(* --------------------------- specifications ---------------------------- *)

Init ==
    /\ posts = [i \in {1} |->
                  [authorId |-> "u1", groupId |-> "g1", reactionCount |-> 0,
                   commentCount |-> 1]]
    /\ comments = [i \in {1} |->
                  [postId |-> 1, authorId |-> "u2", parentId |-> NoId,
                   reactionCount |-> 0]]
    /\ reactions = {}
    /\ notifications = <<>>
    /\ members = [k \in {<<"g1", "u1">>, <<"g2", "u2">>} |-> "active"]
    /\ subscriptions = <<>>
    /\ req = [s \in Slots |-> IdleReq]
    /\ started = 0
    /\ calls = [k \in {} |-> 0]
    /\ pre = [posts |-> posts, comments |-> comments, reactions |-> reactions,
              notifications |-> notifications, members |-> members,
              subscriptions |-> subscriptions]

ToggleBegins(s) ==
    \/ PostReactions_Begin(s)
    \/ Reactions_Begin(s)

ToggleSteps(s) ==
    \/ PostReactions_Steps(s)
    \/ Reactions_Steps(s)

\* Toggle requests (both endpoints), up to two of them in flight at a time.
Next == \E s \in Slots : ToggleBegins(s) \/ ToggleSteps(s)

Spec == Init /\ [][Next]_vars

AllBegins(s) ==
    \/ ToggleBegins(s)
    \/ DeleteReactions_Begin(s)
    \/ PostComments_Begin(s)
    \/ CreatePost_Begin(s)
    \/ JoinGroup_Begin(s)

AllSteps(s) ==
    \/ ToggleSteps(s)
    \/ DeleteReactions_Steps(s)
    \/ PostComments_Steps(s)
    \/ CreatePost_Steps(s)
    \/ JoinGroup_Steps(s)

\* Requests of every kind, one after another: a request starts only when no
\* other is in flight.
NextSeq == \E s \in Slots : (InFlight = {} /\ AllBegins(s)) \/ AllSteps(s)

SpecSeq == Init /\ [][NextSeq]_vars

\* Toggle requests only (both endpoints), one after another.
NextToggle == \E s \in Slots : (InFlight = {} /\ ToggleBegins(s)) \/ ToggleSteps(s)

SpecToggle == Init /\ [][NextToggle]_vars

\* The actions that the notification fan-out is attached to, on every
\* endpoint that performs them, one request after another.
EngageBegins(s) ==
    \/ ToggleBegins(s)
    \/ PostComments_Begin(s)
    \/ Comments_Begin(s)
    \/ JoinGroup_Begin(s)

EngageSteps(s) ==
    \/ ToggleSteps(s)
    \/ PostComments_Steps(s)
    \/ Comments_Steps(s)
    \/ JoinGroup_Steps(s)

NextEngage == \E s \in Slots : (InFlight = {} /\ EngageBegins(s)) \/ EngageSteps(s)

SpecEngage == Init /\ [][NextEngage]_vars

\* Service calls and notification routes, one after another.
NextService == \E s \in Slots : (InFlight = {} /\ InboxBegins(s)) \/ InboxSteps(s)

SpecService == Init /\ [][NextService]_vars

\* An inbox that earlier requests have filled: Notifications for two users,
\* some of them read before the first request of the behaviour arrives.
SeedReadAt == -1

SeedInbox ==
    << [userId |-> "u1", read |-> FALSE], [userId |-> "u1", read |-> TRUE],
       [userId |-> "u2", read |-> FALSE], [userId |-> "u1", read |-> FALSE],
       [userId |-> "u1", read |-> TRUE],  [userId |-> "u1", read |-> FALSE] >>

SeedRow(i) ==
    [NotificationRow(i, SeedInbox[i].userId, "system_announcement", [targetId |-> NoId])
        EXCEPT !.status = IF SeedInbox[i].read THEN "delivered" ELSE "scheduled",
               !.readAt = IF SeedInbox[i].read THEN SeedReadAt ELSE NoId]

RECURSIVE SeedRows(_, _)
\* The rows of SeedInbox with an index in keep, from index i on, oldest first.
SeedRows(keep, i) ==
    IF i > Len(SeedInbox) THEN <<>>
    ELSE (IF i \in keep THEN <<SeedRow(i)>> ELSE <<>>) \o SeedRows(keep, i + 1)

InitList ==
    /\ posts = [i \in {1} |->
                  [authorId |-> "u1", groupId |-> "g1", reactionCount |-> 0,
                   commentCount |-> 1]]
    /\ comments = [i \in {1} |->
                  [postId |-> 1, authorId |-> "u2", parentId |-> NoId,
                   reactionCount |-> 0]]
    /\ reactions = {}
    /\ \E keep \in SUBSET DOMAIN SeedInbox : notifications = SeedRows(keep, 1)
    /\ members = [k \in {<<"g1", "u1">>, <<"g2", "u2">>} |-> "active"]
    /\ subscriptions = <<>>
    /\ req = [s \in Slots |-> IdleReq]
    /\ started = 0
    /\ calls = [k \in {} |-> 0]
    /\ pre = [posts |-> posts, comments |-> comments, reactions |-> reactions,
              notifications |-> notifications, members |-> members,
              subscriptions |-> subscriptions]

ListBegins(s) ==
    \/ ListPaged_Begin(s)
    \/ MarkRead_Begin(s)
    \/ ReadAll_Begin(s)
    \/ DeleteNotification_Begin(s)

ListSteps(s) ==
    \/ List_Steps(s)
    \/ MarkRead_Steps(s)
    \/ ReadAll_Update(s)
    \/ DeleteNotification_Steps(s)

\* The inbox routes on a filled inbox, one request after another.
NextList == \E s \in Slots : (InFlight = {} /\ ListBegins(s)) \/ ListSteps(s)

SpecList == InitList /\ [][NextList]_vars

\* The subscription routes, one request at a time.
NextSubs ==
    \E s \in Slots : (InFlight = {} /\ SubscriptionBegins(s)) \/ SubscriptionSteps(s)

SpecSubs == Init /\ [][NextSubs]_vars

MaxSeedPosts == 3

SeedCounts == 0..2

\* The reaction rows behind a post's reactionCount.
SeedReactions(id, count) ==
    {[id |-> 2 * (id - 1) + k, targetType |-> "post", targetId |-> id,
      userId |-> IF k = 1 THEN "u1" ELSE "u2"] : k \in 1..count}

\* A database with up to MaxSeedPosts published posts, every other one in a
\* group, each with the reactions its counter counts.
InitFeed ==
    /\ \E n \in 1..MaxSeedPosts :
       \E count \in [1..n -> SeedCounts] :
           /\ posts = [i \in 1..n |->
                         [authorId |-> IF i % 2 = 1 THEN "u1" ELSE "u2",
                          groupId |-> IF i % 2 = 1 THEN "g1" ELSE "none",
                          reactionCount |-> count[i], commentCount |-> 0]]
           /\ reactions = UNION {SeedReactions(i, count[i]) : i \in 1..n}
    /\ comments = [i \in {} |-> 0]
    /\ notifications = <<>>
    /\ members = [k \in {<<"g1", "u1">>, <<"g2", "u2">>} |-> "active"]
    /\ subscriptions = <<>>
    /\ req = [s \in Slots |-> IdleReq]
    /\ started = 0
    /\ calls = [k \in {} |-> 0]
    /\ pre = [posts |-> posts, comments |-> comments, reactions |-> reactions,
              notifications |-> notifications, members |-> members,
              subscriptions |-> subscriptions]

\* GET /posts, one request at a time.
NextFeed == \E s \in Slots : (InFlight = {} /\ Feed_Begin(s)) \/ Feed_Steps(s)

SpecFeed == InitFeed /\ [][NextFeed]_vars

\* A client reading the feed page by page, nothing else happening.
NextTraverse ==
    \E s \in Slots :
        \/ InFlight = {} /\ Traverse_Begin(s)
        \/ Traverse_Next(s)
        \/ Feed_Steps(s)

SpecTraverse == InitFeed /\ [][NextTraverse]_vars

MaxFeedRequests == 2

\* GET /posts while reactions are toggled and removed, requests overlapping.
NextFeedToggle ==
    \E s \in Slots :
        \/ started < MaxFeedRequests /\ Traverse_Begin(s)
        \/ started < MaxFeedRequests /\ Reactions_Begin(s)
        \/ started < MaxFeedRequests /\ DeleteReactions_Begin(s)
        \/ Feed_Steps(s)
        \/ Reactions_Steps(s)
        \/ DeleteReactions_Steps(s)

SpecFeedToggle == InitFeed /\ [][NextFeedToggle]_vars

\* A member who sends no request of their own.
OtherMember == "u3"

\* A database whose groups have more members: in the public group g1 joining
\* gives an active membership at once, in the private group g2 a pending one
\* that becomes active when it is approved.
InitFanout ==
    /\ posts = [i \in {1} |->
                  [authorId |-> "u1", groupId |-> "g1", reactionCount |-> 0,
                   commentCount |-> 0]]
    /\ comments = [i \in {} |-> 0]
    /\ reactions = {}
    /\ notifications = <<>>
    /\ \E joined \in SUBSET {<<"g1", "u2">>, <<"g1", OtherMember>>,
                             <<"g2", "u1">>, <<"g2", OtherMember>>} :
       \E approved \in SUBSET {k \in joined : k[1] = "g2"} :
           members = [k \in {<<"g1", "u1">>, <<"g2", "u2">>} \cup joined |->
                         IF k[1] = "g2" /\ k \in joined /\ k \notin approved
                         THEN "pending" ELSE "active"]
    /\ subscriptions = <<>>
    /\ req = [s \in Slots |-> IdleReq]
    /\ started = 0
    /\ calls = [k \in {} |-> 0]
    /\ pre = [posts |-> posts, comments |-> comments, reactions |-> reactions,
              notifications |-> notifications, members |-> members,
              subscriptions |-> subscriptions]

\* POST /posts, one request at a time.
NextFanout == \E s \in Slots : (InFlight = {} /\ CreatePost_Begin(s)) \/ CreatePost_Steps(s)

SpecFanout == InitFanout /\ [][NextFanout]_vars

MaxComments == 2

\* A database with a post in each group, the first with one comment.
InitComments ==
    /\ posts = [i \in {1, 2} |->
                  [authorId |-> GroupOwner(IF i = 1 THEN "g1" ELSE "g2"),
                   groupId |-> IF i = 1 THEN "g1" ELSE "g2",
                   reactionCount |-> 0, commentCount |-> IF i = 1 THEN 1 ELSE 0]]
    /\ comments = [i \in {1} |->
                  [postId |-> 1, authorId |-> "u2", parentId |-> NoId,
                   reactionCount |-> 0]]
    /\ reactions = {}
    /\ notifications = <<>>
    /\ members = [k \in {<<"g1", "u1">>, <<"g2", "u2">>} |-> "active"]
    /\ subscriptions = <<>>
    /\ req = [s \in Slots |-> IdleReq]
    /\ started = 0
    /\ calls = [k \in {} |-> 0]
    /\ pre = [posts |-> posts, comments |-> comments, reactions |-> reactions,
              notifications |-> notifications, members |-> members,
              subscriptions |-> subscriptions]

\* The two comment endpoints, requests overlapping.
NextComments ==
    \E s \in Slots :
        \/ started < MaxComments /\ PostComments_Begin(s)
        \/ started < MaxComments /\ Comments_Begin(s)
        \/ PostComments_Steps(s)
        \/ Comments_Steps(s)

SpecComments == InitComments /\ [][NextComments]_vars

\* Calls of the three builders, one after another.
NextBuilders == \E s \in Slots : (InFlight = {} /\ BuilderBegins(s)) \/ BuilderSteps(s)

SpecBuilders == Init /\ [][NextBuilders]_vars

\* Service calls and notification routes, up to two in flight at a time.
NextInbox == \E s \in Slots : InboxBegins(s) \/ InboxSteps(s)

SpecInbox == Init /\ [][NextInbox]_vars

\* The storage calls of the reaction handlers that lie outside the
\* notification try block.
PrimaryPcs ==
    {"pr_findPost", "pr_findReaction", "pr_delete", "pr_decrement", "pr_create",
     "pr_increment", "dr_findReaction", "dr_delete", "dr_decrement",
     "rx_findReaction", "rx_delete", "rx_decrement", "rx_create", "rx_increment"}

\* The pending storage call rejects without effect (connection lost, timeout):
\* the handler's catch passes the error on and the request ends with 500.
StorageFails(s) ==
    /\ req[s].pc \in PrimaryPcs
    /\ Throw(s, "unavailable")
    /\ UNCHANGED <<tables, started, calls, pre>>

\* Reaction requests, one after another, whose storage calls can fail.
NextFault ==
    \E s \in Slots :
        \/ InFlight = {} /\ (ToggleBegins(s) \/ DeleteReactions_Begin(s))
        \/ ToggleSteps(s)
        \/ DeleteReactions_Steps(s)
        \/ StorageFails(s)

SpecFault == Init /\ [][NextFault]_vars

(* ------------------------------ properties ----------------------------- *)

ExistingTargets ==
    {<<"post", i>> : i \in DOMAIN posts} \cup {<<"comment", i>> : i \in DOMAIN comments}

Consistent(t) == ReactionCount(t[1], t[2]) = Cardinality(LiveRows(t[1], t[2]))

IsToggle(s) == req[s].kind \in {"postReaction", "reaction"}

Succeeded(s) == req[s].status \in {200, 201}

\* Slots s and t hold two finished toggle requests on the same target that
\* were in flight at the same time, and at the same time as no other request
\* (each had one peer: with two slots, the other).
ConcurrentToggles(s, t) ==
    /\ s # t
    /\ req[s].pc = "done" /\ req[t].pc = "done"
    /\ req[s].peers = 1 /\ req[t].peers = 1
    /\ IsToggle(s) /\ IsToggle(t)
    /\ req[s].targetType = req[t].targetType
    /\ req[s].targetId = req[t].targetId

\* C1: when toggle requests run one after another, then whenever none is in
\* flight, every existing target's reactionCount equals the number of its
\* live Reaction rows, and a user has a live row on the target exactly when
\* the number of that user's completed toggles on it is odd.
C1_ToggleParity ==
    InFlight = {} =>
        \A t \in ExistingTargets :
            /\ Consistent(t)
            /\ \A u \in Users :
                   (ReactionRows(t[1], t[2], u) # {}) <=> (CallsOf(<<t[1], t[2], u>>) % 2 = 1)

\* Two toggles by u1 and one by u2 on post 1 have completed, interleaved.
C1_Witness ==
    /\ InFlight = {}
    /\ CallsOf(<<"post", 1, "u1">>) = 2
    /\ CallsOf(<<"post", 1, "u2">>) = 1
    /\ posts[1].reactionCount = 1

\* C2: in every state (every state is one a concurrent reader can see), each
\* target's reactionCount equals the number of its live Reaction rows.
C2_CounterMatchesLedgerAlways == \A t \in ExistingTargets : Consistent(t)

\* C3: the ledger never holds two live rows for one (targetType, targetId,
\* userId), and when two concurrent toggles by one user on one target have
\* both finished, the target's reactionCount equals the number of its live
\* rows.
C3_SameUserRace ==
    /\ \A tt \in TargetTypes, u \in Users :
           \A tid \in TargetIds(tt) \cup {NoId} :
               Cardinality(ReactionRows(tt, tid, u)) <= 1
    /\ \A s, t \in Slots :
           ( /\ ConcurrentToggles(s, t)
             /\ req[s].userId = req[t].userId
             /\ TargetExists(req[s].targetType, req[s].targetId) )
           => Consistent(<<req[s].targetType, req[s].targetId>>)

\* Two concurrent toggles by one user: one added the row, the other was
\* rejected by the unique index.
C3_Witness ==
    \E s, t \in Slots :
        /\ ConcurrentToggles(s, t)
        /\ req[s].userId = req[t].userId
        /\ TargetExists(req[s].targetType, req[s].targetId)
        /\ req[s].error = "P2002"
        /\ req[t].action = "added"

\* C4: when two concurrent toggles by different users on one target have both
\* finished, both have succeeded, each user's row is there exactly when that
\* user's toggle added it, and the target's reactionCount counts both (it
\* equals the number of live rows).
C4_DifferentUsersRace ==
    \A s, t \in Slots :
        ( /\ ConcurrentToggles(s, t)
          /\ req[s].userId # req[t].userId
          /\ TargetExists(req[s].targetType, req[s].targetId) )
        => /\ Succeeded(s) /\ Succeeded(t)
           /\ \A x \in {s, t} :
                  (req[x].action = "added") <=>
                      (ReactionRows(req[x].targetType, req[x].targetId, req[x].userId) # {})
           /\ Consistent(<<req[s].targetType, req[s].targetId>>)

\* Both users' concurrent toggles on post 1 added a row: the counter is 2.
C4_Witness ==
    \E s, t \in Slots :
        /\ ConcurrentToggles(s, t)
        /\ req[s].userId # req[t].userId
        /\ req[s].targetType = "post" /\ req[s].targetId = 1
        /\ req[s].action = "added" /\ req[t].action = "added"
        /\ posts[1].reactionCount = 2

\* C5: whenever no request is in flight, whatever failed before, no target is
\* left with a ledger change that its counter lacks (the code has no
\* operation that recounts from the ledger).
C5_NoLedgerChangeWithoutCounter ==
    (\A s \in Slots : Free(s)) => \A t \in ExistingTargets : Consistent(t)

PreRows(tt, tid, uid) ==
    {r \in pre.reactions : r.targetType = tt /\ r.targetId = tid /\ r.userId = uid}

\* C6: a finished removeReaction never leaves a row that was not there before;
\* when the user had no live row on the target it answered 404 and left the
\* ledger and the counters as they were; when the user had one (on an
\* existing post) it answered 200, removed exactly that row and lowered the
\* post's reactionCount by exactly 1, changing nothing else.
C6_RemoveReaction ==
    \A s \in Slots :
        (req[s].pc = "done" /\ req[s].kind = "deleteReaction") =>
            LET tid == req[s].targetId
                had == PreRows("post", tid, req[s].userId)
            IN /\ reactions \subseteq pre.reactions
               /\ comments = pre.comments
               /\ had = {} =>
                      /\ req[s].status = 404
                      /\ reactions = pre.reactions
                      /\ posts = pre.posts
               /\ (had # {} /\ tid \in DOMAIN posts) =>
                      /\ req[s].status = 200
                      /\ Cardinality(had) = 1
                      /\ reactions = pre.reactions \ had
                      /\ posts = [pre.posts EXCEPT ![tid].reactionCount = @ - 1]

\* A removeReaction on post 1 has removed the user's row: the counter went
\* from 1 to 0.
C6_Witness ==
    \E s \in Slots :
        /\ req[s].pc = "done" /\ req[s].kind = "deleteReaction"
        /\ req[s].status = 200
        /\ req[s].targetId = 1
        /\ PreRows("post", 1, req[s].userId) # {}
        /\ pre.posts[1].reactionCount = 1
        /\ posts[1].reactionCount = 0

\* C7: no Reaction row refers to a target that does not exist, and a finished
\* toggle on a target that does not exist has answered 404.
C7_MissingTargetRejected ==
    /\ \A r \in reactions : TargetExists(r.targetType, r.targetId)
    /\ \A s \in Slots :
           ( /\ req[s].pc = "done" /\ IsToggle(s)
             /\ ~TargetExists(req[s].targetType, req[s].targetId) )
           => req[s].status = 404

\* The Notification rows inserted since the request began.
NewNotifications ==
    SubSeq(notifications, Len(pre.notifications) + 1, Len(notifications))

\* C8: a finished toggle (either endpoint) on a post: when it returned added
\* and the user is not the author, reactionCount is one higher and exactly
\* one reaction Notification for the author referencing the post was created;
\* when it returned removed, reactionCount is one lower and no Notification
\* was created; when the user is the author, no Notification was created.
C8_ReactionScenario ==
    \A s \in Slots :
        ( /\ req[s].pc = "done" /\ IsToggle(s) /\ Succeeded(s)
          /\ req[s].targetType = "post" /\ req[s].targetId \in DOMAIN posts )
        => LET tid == req[s].targetId
               author == posts[tid].authorId
           IN /\ (req[s].action = "added" /\ author # req[s].userId) =>
                     /\ posts[tid].reactionCount = pre.posts[tid].reactionCount + 1
                     /\ Len(NewNotifications) = 1
                     /\ NewNotifications[1].userId = author
                     /\ NewNotifications[1].type = "reaction"
                     /\ NewNotifications[1].data.targetId = tid
              /\ req[s].action = "removed" =>
                     /\ posts[tid].reactionCount = pre.posts[tid].reactionCount - 1
                     /\ NewNotifications = <<>>
              /\ author = req[s].userId => NewNotifications = <<>>

\* The request's primary mutation was carried out completely.
PrimaryDone(s) ==
    CASE req[s].kind = "postReaction" ->
             \/ {"rowCreated", "countUp"} \subseteq req[s].wrote
             \/ {"rowDeleted", "countDown"} \subseteq req[s].wrote
      [] req[s].kind = "postComment" -> {"rowCreated", "countUp"} \subseteq req[s].wrote
      [] OTHER -> "rowCreated" \in req[s].wrote

\* What the request wrote before the dispatch is in the tables.
MutationInPlace(s) ==
    CASE req[s].kind = "postReaction" ->
             /\ ReactionRows("post", req[s].targetId, req[s].userId) # {}
             /\ PreRows("post", req[s].targetId, req[s].userId) = {}
             /\ posts[req[s].targetId].reactionCount =
                    pre.posts[req[s].targetId].reactionCount + 1
      [] req[s].kind = "postComment" ->
             /\ req[s].newId \in DOMAIN comments \ DOMAIN pre.comments
             /\ comments[req[s].newId].postId = req[s].targetId
             /\ comments[req[s].newId].authorId = req[s].userId
             /\ posts[req[s].targetId].commentCount =
                    pre.posts[req[s].targetId].commentCount + 1
      [] req[s].kind = "createPost" ->
             /\ req[s].newId \in DOMAIN posts \ DOMAIN pre.posts
             /\ posts[req[s].newId].authorId = req[s].userId
      [] req[s].kind = "joinGroup" ->
             /\ <<req[s].groupId, req[s].userId>> \in DOMAIN members \ DOMAIN pre.members
      [] OTHER -> FALSE

Triggering == {"postReaction", "postComment", "createPost", "joinGroup"}

\* C9: a finished reaction toggle, comment creation, post creation or group
\* join reports success exactly when its primary mutation was carried out,
\* and when its notification creation failed it still reports success and
\* what it wrote (row and counter, comment, post, membership) is in place.
C9_DispatchFailureIsolated ==
    \A s \in Slots :
        (req[s].pc = "done" /\ req[s].kind \in Triggering) =>
            /\ Succeeded(s) <=> PrimaryDone(s)
            /\ "dispatchFailed" \in req[s].wrote => (Succeeded(s) /\ MutationInPlace(s))

\* A post creation in a group with another active member has finished after
\* its notification creation failed.
C9_Witness ==
    \E s \in Slots :
        /\ req[s].pc = "done" /\ req[s].kind = "createPost"
        /\ "dispatchFailed" \in req[s].wrote
        /\ req[s].status = 201
        /\ Len(notifications) = Len(pre.notifications)

\* C10: in the step that inserts a reaction (reply) Notification, the
\* request's Reaction row and its counter increment (its Comment row and the
\* post's commentCount increment) are already in the tables.
C10_NotifyAfterMutation ==
    [][\A s \in Slots :
          (req[s].pc \in {"pr_notifyInsert", "pc_notifyInsert"}
             /\ Len(notifications') > Len(notifications)) =>
                IF req[s].kind = "postReaction"
                THEN /\ ReactionRows("post", req[s].targetId, req[s].userId) # {}
                     /\ posts[req[s].targetId].reactionCount =
                            pre.posts[req[s].targetId].reactionCount + 1
                ELSE /\ req[s].newId \in DOMAIN comments \ DOMAIN pre.comments
                     /\ comments[req[s].newId].postId = req[s].targetId
                     /\ posts[req[s].targetId].commentCount =
                            pre.posts[req[s].targetId].commentCount + 1]_vars

\* A comment creation has inserted its reply Notification.
C10_Witness ==
    \E s \in Slots :
        /\ req[s].pc = "done" /\ req[s].kind = "postComment"
        /\ "notified" \in req[s].wrote
        /\ Len(notifications) = Len(pre.notifications) + 1
        /\ notifications[Len(notifications)].type = "reply"

\* C11: a finished successful comment by a user who is not the post's author,
\* through POST /posts/:id/comments or POST /comments, has created a reply
\* Notification for the post's author; a finished added reaction by a user
\* who is not the target's author, through POST /posts/:id/reactions or
\* POST /reactions, has created a reaction Notification for that author.
C11_EveryEntryPointNotifies ==
    \A s \in Slots :
        (req[s].pc = "done" /\ Succeeded(s)) =>
            /\ ( /\ req[s].kind \in {"postComment", "comment"}
                 /\ posts[req[s].targetId].authorId # req[s].userId )
               => \E i \in DOMAIN NewNotifications :
                      /\ NewNotifications[i].type = "reply"
                      /\ NewNotifications[i].userId = posts[req[s].targetId].authorId
            /\ ( /\ IsToggle(s) /\ req[s].action = "added"
                 /\ TargetExists(req[s].targetType, req[s].targetId)
                 /\ req[s].userId #
                        (IF req[s].targetType = "post"
                         THEN posts[req[s].targetId].authorId
                         ELSE comments[req[s].targetId].authorId) )
               => \E i \in DOMAIN NewNotifications :
                      /\ NewNotifications[i].type = "reaction"
                      /\ NewNotifications[i].userId =
                             (IF req[s].targetType = "post"
                              THEN posts[req[s].targetId].authorId
                              ELSE comments[req[s].targetId].authorId)

\* The rows that were in the table when the request began are still there,
\* unchanged and in place.
ExistingNotificationsKept ==
    /\ Len(notifications) >= Len(pre.notifications)
    /\ SubSeq(notifications, 1, Len(pre.notifications)) = pre.notifications

\* A new row as the service writes it: scheduled and unread, with a new id.
ScheduledUnread(n) ==
    /\ n.status = "scheduled"
    /\ n.readAt = NoId
    /\ \A i \in DOMAIN pre.notifications : pre.notifications[i].id # n.id

\* C12: a finished createNotification(userId, payload) has returned normally;
\* when its insert succeeded the table holds exactly one more row, addressed
\* to userId, scheduled and unread, and the rows that were there are
\* unchanged; when its insert failed the table is as it was.
C12_Notify ==
    \A s \in Slots :
        (req[s].pc = "done" /\ req[s].kind = "notify") =>
            /\ req[s].action = "returned" /\ req[s].error = "none"
            /\ IF "dispatchFailed" \in req[s].wrote
               THEN notifications = pre.notifications
               ELSE /\ ExistingNotificationsKept
                    /\ Len(NewNotifications) = 1
                    /\ NewNotifications[1].userId \in req[s].recipients
                    /\ ScheduledUnread(NewNotifications[1])

\* A createNotification for u2 has inserted its row into a table that
\* already held one.
C12_Witness ==
    \E s \in Slots :
        /\ req[s].pc = "done" /\ req[s].kind = "notify"
        /\ "notified" \in req[s].wrote
        /\ req[s].recipients = {"u2"}
        /\ Len(pre.notifications) >= 1
        /\ Len(notifications) = Len(pre.notifications) + 1

\* The users that were given a row since the request began.
NewlyNotified == {NewNotifications[i].userId : i \in DOMAIN NewNotifications}

\* C13: during and after createBulkNotifications(userIds, payload) the users
\* with a new row are either none or all of userIds; the finished call has
\* returned normally, left the existing rows unchanged, and added either
\* nothing or exactly one scheduled, unread row per userId.
C13_NotifyManyAllOrNothing ==
    \A s \in Slots :
        req[s].kind = "notifyMany" =>
            /\ NewlyNotified \in {{}, req[s].recipients}
            /\ req[s].pc = "done" =>
                  /\ req[s].action = "returned" /\ req[s].error = "none"
                  /\ ExistingNotificationsKept
                  /\ Len(NewNotifications) \in {0, Cardinality(req[s].recipients)}
                  /\ \A i \in DOMAIN NewNotifications : ScheduledUnread(NewNotifications[i])
                  /\ "dispatchFailed" \in req[s].wrote => NewNotifications = <<>>

\* A createBulkNotifications for two users has inserted both rows.
C13_Witness ==
    \E s \in Slots :
        /\ req[s].pc = "done" /\ req[s].kind = "notifyMany"
        /\ req[s].recipients = Users
        /\ "notified" \in req[s].wrote
        /\ NewlyNotified = Users
        /\ Len(NewNotifications) = 2

\* The acting user recorded in a reaction or reply Notification's data.
ActorOf(n) ==
    IF n.type = "reaction" THEN n.data.reactorId
    ELSE IF n.type = "reply" THEN n.data.replierId
    ELSE "none"

\* C14: no reaction or reply Notification is addressed to the user recorded
\* in its data as the actor, and a finished reaction toggle or comment
\* creation (any endpoint) by the author of the post or comment acted on has
\* created no Notification for that user.
C14_SelfActionSuppressed ==
    /\ \A i \in DOMAIN notifications :
           notifications[i].type \in {"reaction", "reply"} =>
               notifications[i].userId # ActorOf(notifications[i])
    /\ \A s \in Slots :
           ( /\ req[s].pc = "done"
             /\ req[s].kind \in {"postReaction", "reaction", "postComment", "comment"} )
           => \A i \in DOMAIN NewNotifications :
                  NewNotifications[i].userId # req[s].userId

\* The author of post 1 has reacted to it through POST /posts/:id/reactions:
\* the row is added and the table of Notifications is as it was.
C14_Witness ==
    \E s \in Slots :
        /\ req[s].pc = "done" /\ req[s].kind = "postReaction"
        /\ req[s].action = "added"
        /\ req[s].targetId = 1
        /\ posts[1].authorId = req[s].userId
        /\ notifications = pre.notifications

\* Nothing was written since the call began.
TablesUnchanged ==
    /\ posts = pre.posts /\ comments = pre.comments /\ reactions = pre.reactions
    /\ notifications = pre.notifications /\ members = pre.members
    /\ subscriptions = pre.subscriptions

\* C15: a finished sendMentionNotification whose mentionedUserId equals its
\* mentionerId has created no Notification.
C15_MentionSelfSuppressed ==
    \A s \in Slots :
        ( /\ req[s].pc = "done" /\ req[s].kind = "sendMention"
          /\ req[s].authorId = req[s].userId )
        => notifications = pre.notifications

C17_Truncation ==
    \A s \in Slots :
        ( /\ req[s].pc = "done" /\ req[s].kind \in {"sendReply", "sendMention"}
          /\ "notified" \in req[s].wrote )
        => LET c == req[s].content
               stored == notifications[Len(notifications)].data.content
           IN IF Len(c) > 100
              THEN /\ Len(stored) = 103
                   /\ \A i \in 1..100 : stored[i] = c[i]
                   /\ \A i \in 101..103 : stored[i] = "."
              ELSE stored = c

\* The reply builder has stored content of 101 characters, and an earlier
\* call content of exactly 100.
C17_Witness ==
    \E s \in Slots :
        /\ req[s].pc = "done" /\ req[s].kind = "sendReply"
        /\ "notified" \in req[s].wrote
        /\ Len(req[s].content) = 101
        /\ Len(notifications) = 2
        /\ Len(notifications[2].data.content) = 103
        /\ Len(notifications[1].data.content) = 100

Delivered(n) == n.status = "delivered" \/ n.readAt # NoId

\* C18: in every step, a Notification that appears is scheduled and unread,
\* and a Notification that is delivered (read) is afterwards either gone or
\* still delivered with readAt set.
C18_LifecycleOneWay ==
    [][ /\ \A j \in DOMAIN notifications' :
               notifications'[j].id \notin NotificationIds =>
                   /\ notifications'[j].status = "scheduled"
                   /\ notifications'[j].readAt = NoId
        /\ \A i \in DOMAIN notifications :
               Delivered(notifications[i]) =>
                   \A j \in DOMAIN notifications' :
                       notifications'[j].id = notifications[i].id =>
                           /\ notifications'[j].status = "delivered"
                           /\ notifications'[j].readAt # NoId ]_vars

\* A Notification that was read by an earlier request has been marked read
\* again by a later one.
C18_Witness ==
    \E s \in Slots :
        /\ req[s].pc = "done" /\ req[s].kind = "markRead" /\ req[s].status = 200
        /\ \E i \in DOMAIN pre.notifications :
               /\ pre.notifications[i].id = req[s].targetId
               /\ pre.notifications[i].status = "delivered"
        /\ \E i \in DOMAIN notifications :
               /\ notifications[i].id = req[s].targetId
               /\ notifications[i].status = "delivered"

\* C19: for every Notification, status is delivered exactly when readAt is
\* set and scheduled exactly when readAt is null.
C19_StatusReadAtLockstep ==
    \A i \in DOMAIN notifications :
        /\ notifications[i].status \in {"scheduled", "delivered"}
        /\ notifications[i].status = "delivered" <=> notifications[i].readAt # NoId

\* One Notification is read and another is not, while a markRead is between
\* its lookup and its update.
C19_Witness ==
    /\ \E i \in DOMAIN notifications : notifications[i].readAt # NoId
    /\ \E i \in DOMAIN notifications : notifications[i].readAt = NoId
    /\ \E s \in Slots : req[s].pc = "mr_update"

\* C20: a finished POST /notifications/:id/read answered 404 when no
\* Notification had the id and 403 when the Notification was another user's,
\* leaving every Notification as it was; otherwise it answered 200 and set
\* readAt to the current time and status to delivered on that Notification
\* and on no other.
C20_MarkRead ==
    \A s \in Slots :
        (req[s].pc = "done" /\ req[s].kind = "markRead") =>
            LET hit == {i \in DOMAIN pre.notifications :
                            pre.notifications[i].id = req[s].targetId}
            IN IF hit = {}
               THEN req[s].status = 404 /\ notifications = pre.notifications
               ELSE IF \E i \in hit : pre.notifications[i].userId # req[s].userId
               THEN req[s].status = 403 /\ notifications = pre.notifications
               ELSE /\ req[s].status = 200
                    /\ notifications =
                           [i \in DOMAIN pre.notifications |->
                               IF i \in hit
                               THEN [pre.notifications[i] EXCEPT
                                        !.readAt = Now, !.status = "delivered"]
                               ELSE pre.notifications[i]]

\* A user has marked their own Notification read while another user's
\* Notification stays unread.
C20_Witness ==
    \E s \in Slots :
        /\ req[s].pc = "done" /\ req[s].kind = "markRead" /\ req[s].status = 200
        /\ Len(notifications) = 2
        /\ \E i \in DOMAIN notifications :
               /\ notifications[i].id = req[s].targetId
               /\ notifications[i].readAt = Now
        /\ \E i \in DOMAIN notifications : notifications[i].readAt = NoId

\* The user's unread rows of an inbox.
UnreadOf(inbox, userId) ==
    {i \in DOMAIN inbox : inbox[i].userId = userId /\ inbox[i].readAt = NoId}

\* C21: a finished POST /notifications/read-all leaves the user with no
\* unread Notification, and when the user had none when it began (as after a
\* first markAllRead) it left every Notification exactly as it was, readAt
\* and status included: applying it twice gives the state of applying it
\* once.
C21_MarkAllReadIdempotent ==
    \A s \in Slots :
        (req[s].pc = "done" /\ req[s].kind = "markAllRead") =>
            /\ req[s].status = 200
            /\ UnreadOf(notifications, req[s].userId) = {}
            /\ UnreadOf(pre.notifications, req[s].userId) = {}
                   => notifications = pre.notifications

\* A markAllRead has finished for a user whose Notifications had been marked
\* read by the request before it.
C21_Witness ==
    \E s \in Slots :
        /\ req[s].pc = "done" /\ req[s].kind = "markAllRead"
        /\ started >= 2
        /\ UnreadOf(pre.notifications, req[s].userId) = {}
        /\ Cardinality({i \in DOMAIN pre.notifications :
                           /\ pre.notifications[i].userId = req[s].userId
                           /\ pre.notifications[i].readAt = started - 1}) >= 2
        /\ notifications = pre.notifications

InboxMutations == {"markRead", "markAllRead", "deleteNotification"}

\* C22: no step of a markRead, markAllRead or delete request of user U,
\* whatever its argument and whatever other requests are in flight, changes
\* or removes a Notification whose recipient is not U.
C22_OtherRecipientsUntouched ==
    [][\A s \in Slots :
          (/\ req[s].kind \in InboxMutations
           /\ req[s].pc \notin {"idle", "done"}
           /\ req'[s].pc # req[s].pc)
              => OthersOf(notifications', req[s].userId)
                     = OthersOf(notifications, req[s].userId)]_vars

\* A delete and a markAllRead have both gone through while the inbox holds
\* a Notification of another recipient.
C22_Witness ==
    \E s, t \in Slots :
        /\ req[s].pc = "done" /\ req[s].kind = "deleteNotification" /\ req[s].status = 200
        /\ req[t].pc = "done" /\ req[t].kind = "markAllRead"
        /\ OthersOf(notifications, req[s].userId) # <<>>
        /\ req[s].userId = req[t].userId

IdsOf(inbox) == {inbox[i].id : i \in DOMAIN inbox}

RowWithId(inbox, id) == inbox[CHOOSE i \in DOMAIN inbox : inbox[i].id = id]

\* C23: a finished DELETE /notifications/:id answered NotFound when no
\* Notification had the id and Forbidden when it belonged to someone else,
\* removing nothing in both cases; otherwise it removed exactly that row.
\* No later step brings a removed id back, and every list result shows rows
\* of the table only, with total and unreadCount counted over the table, so
\* the removed Notification is in none of them.
C23_Delete ==
    /\ [](\A s \in Slots :
            /\ (req[s].pc = "done" /\ req[s].kind = "deleteNotification") =>
                   IF req[s].targetId \notin IdsOf(pre.notifications)
                   THEN req[s].status = 404 /\ notifications = pre.notifications
                   ELSE IF RowWithId(pre.notifications, req[s].targetId).userId
                               # req[s].userId
                   THEN req[s].status = 403 /\ notifications = pre.notifications
                   ELSE /\ req[s].status = 200
                        /\ notifications =
                               SelectSeq(pre.notifications,
                                         LAMBDA n : n.id # req[s].targetId)
            /\ (req[s].pc = "done" /\ req[s].kind = "list") =>
                   /\ {req[s].items[i].id : i \in DOMAIN req[s].items}
                          \subseteq IdsOf(notifications)
                   /\ req[s].total =
                          Len(SelectSeq(notifications,
                                LAMBDA n : ListWhere(n, req[s].userId, req[s].unreadOnly)))
                   /\ req[s].unread = Cardinality(UnreadOf(notifications, req[s].userId)))
    /\ [][IdsOf(notifications') \subseteq IdsOf(notifications)]_vars

\* A delete has removed one unread Notification of an inbox and left others.
C23_Witness ==
    \E s \in Slots :
        /\ req[s].pc = "done" /\ req[s].kind = "deleteNotification"
        /\ req[s].status = 200
        /\ Len(notifications) = Len(pre.notifications) - 1
        /\ RowWithId(pre.notifications, req[s].targetId).readAt = NoId
        /\ UnreadOf(notifications, req[s].userId) # {}

ItemIds(s) == {req[s].items[i].id : i \in DOMAIN req[s].items}

UnreadIds(userId) == {notifications[i].id : i \in UnreadOf(notifications, userId)}

Min(a, b) == IF a < b THEN a ELSE b

Monus(a, b) == IF a > b THEN a - b ELSE 0

\* C24 as stated: a finished list with unreadOnly=true holds, whatever the
\* page size, exactly the user's unread Notifications, none of them read,
\* and an unreadCount equal to their number.
C24_AllUnreadAnyPageSize ==
    \A s \in Slots :
        (req[s].pc = "done" /\ req[s].kind = "list" /\ req[s].unreadOnly) =>
            /\ ItemIds(s) = UnreadIds(req[s].userId)
            /\ \A i \in DOMAIN req[s].items : ~req[s].items[i].isRead
            /\ req[s].unread = Cardinality(UnreadIds(req[s].userId))

\* C24, amended: a finished list with unreadOnly=true holds one page of the
\* user's unread Notifications: none of its items is read, each is one of the
\* user's unread rows, there are min(limit, unread - skip) of them, hence all
\* of them on page 1 when limit is at least their number, and total is their
\* number. With or without unreadOnly, and whatever page and limit,
\* unreadCount is the number of the user's unread Notifications.
C24_UnreadPage ==
    \A s \in Slots :
        (req[s].pc = "done" /\ req[s].kind = "list") =>
            LET all == UnreadIds(req[s].userId) IN
            /\ req[s].unread = Cardinality(all)
            /\ req[s].unreadOnly =>
                   /\ ItemIds(s) \subseteq all
                   /\ \A i \in DOMAIN req[s].items : ~req[s].items[i].isRead
                   /\ Cardinality(ItemIds(s)) = Len(req[s].items)
                   /\ Len(req[s].items)
                          = Min(req[s].limit, Monus(Cardinality(all), req[s].skip))
                   /\ (req[s].skip = 0 /\ req[s].limit >= Cardinality(all))
                          => ItemIds(s) = all
                   /\ req[s].total = Cardinality(all)

\* The scenario: a user with 3 unread and 2 read Notifications lists with
\* unreadOnly=true and the default page size, and gets 3 items.
C24_Witness ==
    \E s \in Slots :
        /\ req[s].pc = "done" /\ req[s].kind = "list" /\ req[s].unreadOnly
        /\ req[s].page = DefaultPage /\ req[s].limit = DefaultLimit
        /\ Cardinality(UnreadIds(req[s].userId)) = 3
        /\ Cardinality({i \in DOMAIN notifications :
                           /\ notifications[i].userId = req[s].userId
                           /\ notifications[i].readAt # NoId}) = 2
        /\ Len(req[s].items) = 3
        /\ req[s].unread = 3

RowsOfUser(registry, userId) == SelectSeq(registry, LAMBDA r : r.userId = userId)

RowsOfKey(registry, key) == SelectSeq(registry, LAMBDA r : SubscriptionKey(r) = key)

FlagsOf(r) == [inApp |-> r.inApp, email |-> r.email, push |-> r.push]

\* C25: the registry never holds two rows for one (user, targetType,
\* targetId); a finished subscribe leaves the one row of its triple with
\* exactly the flags of that call, whatever the flags written before; only a
\* subscribe or unsubscribe for a triple changes the row of that triple; and a
\* finished listSubscriptions holds the user's rows as the registry has them.
\* So after n >= 1 subscribes and no later unsubscribe the list has exactly
\* one row for the pair, with the flags of the last call.
C25_SubscribeRoundTrip ==
    /\ [](\A s \in Slots :
            /\ \A key \in SubscriptionKeys(subscriptions) :
                   Len(RowsOfKey(subscriptions, key)) = 1
            /\ (req[s].pc = "done" /\ req[s].kind = "subscribe") =>
                   /\ req[s].status = 201
                   /\ RowsOfKey(subscriptions, SubscriptionKey(req[s]))
                          = <<SubscriptionRow(req[s])>>
            /\ (req[s].pc = "done" /\ req[s].kind = "listSubscriptions") =>
                   /\ req[s].items = Reverse(RowsOfUser(subscriptions, req[s].userId))
                   /\ \A key \in SubscriptionKeys(subscriptions) :
                          key[1] = req[s].userId
                              => Len(RowsOfKey(req[s].items, key)) = 1)
    /\ [][\A u \in Users, target \in SubscriptionTargets :
             LET key == <<u, target[1], target[2]>> IN
             RowsOfKey(subscriptions', key) # RowsOfKey(subscriptions, key)
                 => \E s \in Slots :
                        /\ req[s].kind \in {"subscribe", "unsubscribe"}
                        /\ SubscriptionKey(req[s]) = key
                        /\ req[s].pc # "done" /\ req'[s].pc = "done"]_vars

\* A user subscribed twice to one target, the second time with other flags,
\* and then listed: one row, with flags that are not those of the first call.
C25_Witness ==
    \E s \in Slots :
        /\ req[s].pc = "done" /\ req[s].kind = "listSubscriptions"
        /\ Len(req[s].items) = 1
        /\ CallsOf(<<"subscribe">> \o SubscriptionKey(req[s].items[1])) = 2
        /\ FlagsOf(req[s].items[1]) = [inApp |-> FALSE, email |-> TRUE, push |-> FALSE]

C27_OneMode ==
    \A s \in Slots :
        (req[s].pc = "done" /\ req[s].kind = "feed") =>
            LET inGroup == FeedMatching(NoId, req[s].groupId)
                below == {id \in inGroup : id < req[s].cursor}
            IN  IF req[s].cursor # NoId
                THEN /\ req[s].skip = 0
                     /\ ItemIds(s) \subseteq below
                     /\ Len(req[s].items) = Min(req[s].limit, Cardinality(below))
                ELSE /\ req[s].skip = (req[s].page - 1) * req[s].limit
                     /\ ItemIds(s) \subseteq inGroup
                     /\ Len(req[s].items)
                            = Min(req[s].limit, Monus(Cardinality(inGroup), req[s].skip))

\* A request with a cursor and page=2 has returned the newest post below
\* the cursor.
C27_Witness ==
    \E s \in Slots :
        /\ req[s].pc = "done" /\ req[s].kind = "feed"
        /\ req[s].cursor = 3 /\ req[s].page = 2 /\ req[s].limit = 1
        /\ req[s].sort = "new"
        /\ ItemIds(s) = {2}

\* C28: in a finished feed request total is the number of posts matching the
\* filters of the request, hasMore is offset + limit < total for the offset the
\* request used, and hasMore is true exactly when a matching post lies beyond
\* the items returned.
C28_HasMore ==
    \A s \in Slots :
        (req[s].pc = "done" /\ req[s].kind = "feed") =>
            /\ req[s].total = Cardinality(FeedMatching(req[s].cursor, req[s].groupId))
            /\ req[s].hasMore = (req[s].skip + req[s].limit < req[s].total)
            /\ req[s].hasMore = (req[s].skip + Len(req[s].items) < req[s].total)

\* A request got a full last page: as many items as the limit and nothing
\* after them.
C28_Witness ==
    \E s \in Slots :
        /\ req[s].pc = "done" /\ req[s].kind = "feed"
        /\ req[s].limit = 2 /\ Len(req[s].items) = 2
        /\ req[s].skip + 2 = req[s].total
        /\ ~req[s].hasMore

\* The membership status of a request's user in its group when it began.
MembershipBefore(s) ==
    IF <<req[s].groupId, req[s].userId>> \in DOMAIN pre.members
    THEN pre.members[<<req[s].groupId, req[s].userId>>]
    ELSE "none"

C30_NonNegative ==
    /\ \A id \in DOMAIN posts : posts[id].reactionCount >= 0
    /\ \A id \in DOMAIN comments : comments[id].reactionCount >= 0

\* The post_created Notifications for user u among the rows a request added.
PostCreatedFor(u, postId) ==
    SelectSeq(NewNotifications,
              LAMBDA n : n.userId = u /\ n.type = "post_created" /\ n.data.postId = postId)

\* C31: a finished POST /posts that created a post and whose notification
\* step did not fail added, for a post in group G, exactly one post_created
\* Notification for each user whose membership of G was active and who is
\* not the author, and nothing else: none for the author, for a pending
\* member or for a non-member; for a post without group it added none. The
\* Notifications there were before are kept.
C31_FanOut ==
    \A s \in Slots :
        (/\ req[s].pc = "done" /\ req[s].kind = "createPost"
         /\ req[s].status = 201
         /\ "dispatchFailed" \notin req[s].wrote)
            => LET recipients ==
                       IF req[s].groupId = "none" THEN {}
                       ELSE {u \in Users \cup {OtherMember} :
                                /\ u # req[s].userId
                                /\ <<req[s].groupId, u>> \in DOMAIN pre.members
                                /\ pre.members[<<req[s].groupId, u>>] = "active"}
                   created == DOMAIN posts \ DOMAIN pre.posts
               IN  /\ Cardinality(created) = 1
                   /\ SubSeq(notifications, 1, Len(pre.notifications)) = pre.notifications
                   /\ Len(NewNotifications) = Cardinality(recipients)
                   /\ \A u \in Users \cup {OtherMember} :
                          \A id \in created :
                              Len(PostCreatedFor(u, id))
                                  = IF u \in recipients THEN 1 ELSE 0

\* A post in the private group reached its one active member and not the
\* pending one, after a post in the public group had reached two members.
C31_Witness ==
    \E s \in Slots :
        /\ req[s].pc = "done" /\ req[s].kind = "createPost" /\ req[s].status = 201
        /\ req[s].groupId = "g2" /\ req[s].userId = "u2"
        /\ <<"g2", "u1">> \in DOMAIN pre.members
        /\ pre.members[<<"g2", "u1">>] = "pending"
        /\ Len(PostCreatedFor(OtherMember, req[s].newId)) = 1
        /\ Len(NewNotifications) = 1
        /\ Len(SelectSeq(pre.notifications, LAMBDA n : n.data.groupId = "g1")) = 2

CommentRows(table, postId) == {id \in DOMAIN table : table[id].postId = postId}

\* The comment requests that have created their row and not yet counted it.
Uncounted(postId) ==
    {s \in Slots : req[s].pc \in {"pc_update", "cm_update"} /\ req[s].targetId = postId}

CommentRequests == {"postComment", "comment"}

\* C32: a post's commentCount is the number of its Comment rows less the
\* rows whose request has not reached its counter update yet, so the two are
\* equal whenever every comment request that created a row has completed,
\* through either endpoint, top-level or reply, and however the requests
\* overlapped; and a comment request that was rejected (any response but
\* 201) and ran alone left the Comment table and every commentCount as they
\* were.
C32_CommentCount ==
    /\ \A id \in DOMAIN posts :
           posts[id].commentCount + Cardinality(Uncounted(id))
               = Cardinality(CommentRows(comments, id))
    /\ \A s \in Slots :
           (/\ req[s].pc = "done" /\ req[s].kind \in CommentRequests
            /\ req[s].status # 201)
               => /\ req[s].wrote = {}
                  /\ (req[s].peers = 0 /\ InFlight = {})
                         => comments = pre.comments /\ posts = pre.posts

\* Two overlapping requests, one through each endpoint and one of them a
\* reply, have added their comments to one post; the counter shows the three
\* rows.
C32_Witness ==
    \E s, t \in Slots :
        /\ InFlight = {}
        /\ req[s].pc = "done" /\ req[s].kind = "postComment" /\ req[s].status = 201
        /\ req[t].pc = "done" /\ req[t].kind = "comment" /\ req[t].status = 201
        /\ req[s].peers = 1 /\ req[t].peers = 1
        /\ posts[1].commentCount = 3
        /\ Cardinality(CommentRows(comments, 1)) = 3
        /\ \E id \in CommentRows(comments, 1) : comments[id].parentId # NoId

\* The ids a client has been given in a traversal, in order.
Collected(s) == req[s].trail \o [i \in DOMAIN req[s].items |-> req[s].items[i].id]

\* C33 as stated: when a traversal ends (a response with hasMore false), the
\* client has been given every post matching the filters, each exactly
\* once, whatever the sort mode.
C33_TraversalComplete ==
    \A s \in Slots :
        (req[s].pc = "done" /\ req[s].kind = "feed" /\ ~req[s].hasMore) =>
            /\ {Collected(s)[i] : i \in DOMAIN Collected(s)}
                   = FeedMatching(NoId, req[s].groupId)
            /\ Len(Collected(s)) = Cardinality(FeedMatching(NoId, req[s].groupId))

\* The part of C33 that holds: the traversal under sort = new.
C33_TraversalCompleteNew ==
    \A s \in Slots :
        (/\ req[s].pc = "done" /\ req[s].kind = "feed" /\ ~req[s].hasMore
         /\ req[s].sort = "new") =>
            /\ {Collected(s)[i] : i \in DOMAIN Collected(s)}
                   = FeedMatching(NoId, req[s].groupId)
            /\ Len(Collected(s)) = Cardinality(FeedMatching(NoId, req[s].groupId))

\* C34 as stated: in every feed response with sort = top or trending the
\* reactionCount values returned with the items never increase from one
\* item to the next, also while a toggle or remove request is in flight.
C34_ReturnedCountsOrdered ==
    \A s \in Slots :
        (/\ req[s].pc = "done" /\ req[s].kind = "feed"
         /\ req[s].sort \in {"top", "trending"})
            => \A i, j \in DOMAIN req[s].items :
                   i < j => req[s].items[i].reactionCount >= req[s].items[j].reactionCount

====
